---- MODULE Spec2Model ----
(***************************************************************************)
(* EROFS VLE decompression front end (fs/erofs/unzip_vle.c): the workgroup *)
(* registry, the per-read work builder with its owned chain, the           *)
(* submission walk, the pending-bio counter and the decompression pass.    *)
(* One physical cluster is one page (clusterpages = 1), so a workgroup has *)
(* one compressed slot.                                                    *)
(***************************************************************************)
EXTENDS Integers, Sequences, FiniteSets, TLC

\* ---- bounds of the model ------------------------------------------------
NReaders == 2      \* concurrent read operations
NKeys == 2         \* physical cluster indexes on the super block
MaxVisits == 2     \* extents one read operation walks through
MaxIndex == 0      \* largest destination page index inside an extent
NPages == 2        \* file pages one read operation walks (PageSpec)
PageUnits == 2     \* positions inside a page at which an extent can start
VecRoom == 2       \* entries of the inline page vector
NClusters == 3     \* records of the cluster index of the inode (MapSpec)
ClusterBits == 1   \* sbi->clusterbits: a cluster has 2^ClusterBits positions

\* ---- program constants --------------------------------------------------
Z_EROFS_VLE_WORKGRP_NIL == 0
Z_EROFS_VLE_WORKGRP_TAIL == 101
Z_EROFS_VLE_WORKGRP_TAIL_CLOSED == 102

Z_EROFS_VLE_WORK_SECONDARY == 0
Z_EROFS_VLE_WORK_PRIMARY == 1
Z_EROFS_VLE_WORK_PRIMARY_TERMINAL == 2
Z_EROFS_VLE_WORK_PRIMARY_FOLLOWED == 3

NIL == Z_EROFS_VLE_WORKGRP_NIL
TAIL == Z_EROFS_VLE_WORKGRP_TAIL
TAIL_CLOSED == Z_EROFS_VLE_WORKGRP_TAIL_CLOSED

Readers == 1..NReaders
Keys == 1..NKeys
\* one spare object so that a creator that lost the race can hold a duplicate
Groups == 1..(NKeys + 1)
\* thread ids: reader r is thread r, the worker of r's background io is NReaders + r
Workers == (NReaders + 1)..(2 * NReaders)
Threads == Readers \cup Workers
ReaderOf(t) == IF t \in Readers THEN t ELSE t - NReaders
WorkerOf(r) == NReaders + r

PageTypes == {"HEAD", "EXCLUSIVE", "TAIL_SHARED"}
\* the page types the read operations of Spec add
BuildTypes == {"HEAD", "EXCLUSIVE"}

\* a compressed slot: NULL, an in-place file page, a staging page, a page
\* preallocated for the managed cache, or a managed cache page
\* (uptodate: PageUptodate, locked: PageLocked of a managed cache page)
NullSlot == [kind |-> "NULL", owner |-> 0, uptodate |-> FALSE, locked |-> FALSE]
FileSlot(r) == [kind |-> "FILE", owner |-> r, uptodate |-> FALSE, locked |-> FALSE]
StagingSlot == [kind |-> "STAGING", owner |-> 0, uptodate |-> FALSE, locked |-> FALSE]
PreallocSlot == [kind |-> "PREALLOC", owner |-> 0, uptodate |-> FALSE, locked |-> FALSE]
CachedSlot(u, l) == [kind |-> "CACHED", owner |-> 0, uptodate |-> u, locked |-> l]
\* the PAGE_MIGRATE_LOCKED sentinel, and a managed cache page that
\* find_get_page found: the pointer carries the tag justfound
LockedSlot == [kind |-> "LOCKED", owner |-> 0, uptodate |-> FALSE, locked |-> FALSE]
FoundSlot(u) == [kind |-> "FOUND", owner |-> 0, uptodate |-> u, locked |-> FALSE]

Max(a, b) == IF a >= b THEN a ELSE b

VARIABLES
    \* workgroup registry and workgroup objects
    allocated,      \* workgroup objects that are allocated (not freed)
    registered,     \* workgroups inserted in the registry of the super block
    gkey,           \* obj.index of a workgroup
    refcount,       \* obj.refcount
    next,           \* grp->next
    lock,           \* work->lock: 0, or the thread holding it
    pagevec,        \* work->pagevec: sequence of <<reader, page type>>
    nr_pages,       \* work->nr_pages
    slot,           \* grp->compressed_pages[0]
    \* read operations (struct z_erofs_vle_frontend and its builder)
    pc,             \* position of every thread
    readpage,       \* TRUE: ->readpage, FALSE: ->readpages
    force_fg,       \* foreground (synchronous) decompression
    owned_head,     \* fe->owned_head
    hosted,         \* builder->hosted
    role,           \* builder->role
    b_grp,          \* builder->grp / finder grp (0: no work)
    deficit,        \* builder->compressed_deficit
    idx,            \* finder.idx, the key being resolved
    visits,         \* number of extents walked
    err,            \* z_erofs_do_read_page returned an error
    online,         \* page parts of the read operation not yet ended
    \* submission (z_erofs_vle_submit_all locals and the two io descriptors)
    s_owned,        \* owned_head of the walk
    io_head,        \* <<ios[0]->head, ios[1]->head>>
    lstgrp,         \* <<lstgrp_noio, lstgrp_io>>
    nr_bios,
    bio,            \* workgroups whose page sits in the bio being built
    bio_open,       \* bio != NULL
    force_submit,
    last_index,
    inflight,       \* submitted bios that have not completed
    pending_bios,   \* io->pending_bios of ios[1]
    \* decompression walk (z_erofs_vle_unzip_all locals), per thread
    u_owned,
    u_grp,
    u_list,         \* which io list the thread walks (1: noio, 2: io)
    \* history
    grants,         \* the builders given hosted == true since next last left NIL
    passes,         \* z_erofs_vle_unzip calls since next last left NIL
    todo,           \* workgroups a submission walked and has not yet passed to unzip
    trig            \* times atomic_add_return brought pending_bios to zero

gvars == <<allocated, registered, gkey, refcount, next, lock, pagevec, nr_pages, slot>>
rvars == <<readpage, force_fg, owned_head, hosted, role, b_grp, deficit, idx,
           visits, err, online>>
svars == <<s_owned, io_head, lstgrp, nr_bios, bio, bio_open, force_submit,
           last_index, inflight, pending_bios>>
uvars == <<u_owned, u_grp, u_list>>
hvars == <<grants, passes, todo, trig>>
vars == <<gvars, pc, rvars, svars, uvars, hvars>>

\* ---- state of the separate specifications --------------------------------
\* Each of the specifications below has its own variables; a step of one
\* specification leaves the variables of the others alone.
VARIABLES
    \* the lifetime of workgroup objects (FreeSpec)
    wg_live,       \* object -> its memory is allocated
    wg_ref,        \* object -> obj.refcount, EROFS_LOCKED_MAGIC while frozen
    wg_slot,       \* object -> compressed_pages[0] holds the managed cache page
    wg_mutex,      \* object -> holder of work->lock, 0 when free
    wg_cb,         \* object -> callbacks queued by call_rcu
    wg_wait,       \* object -> read-side sections its grace period waits for
    workstn,       \* the object the registry holds for the key, 0 when none
    pg_private,    \* page_private of the managed cache page (0: not PagePrivate)
    pg_lock,       \* holder of the page lock, 0 when free
    fpc,           \* thread -> position
    fptr,          \* thread -> the workgroup pointer it holds, 0 when none
    frcu,          \* thread -> inside rcu_read_lock
    dfree,         \* kmem_cache_free was called on freed memory
    fret,          \* thread -> what its last call returned, "none" before
    pg_count,      \* reference count of the managed cache page
    pg_frame       \* the page frame behind the cache page; migration changes it

VARIABLES
    \* one read operation over the pages of a file (PageSpec)
    img_bnd,       \* the image: positions at which an extent starts
    img_pa,        \* the image: extent start -> physical cluster (workgroup)
    fe_pc,         \* position of the read operation
    fe_page,       \* page->index of the page in z_erofs_do_read_page
    fe_end,        \* end
    fe_cur,        \* cur
    fe_spiltted,   \* spiltted
    fe_tight,      \* tight
    fe_type,       \* page_type
    fe_map,        \* map: m_la and m_llen
    fe_work,       \* builder->work, 0 for NULL
    fe_role,       \* builder->role
    fe_deficit,    \* builder->compressed_deficit
    fe_ret,        \* result of the last z_erofs_vle_work_add_page
    wk_vec,        \* work -> page vector, entries <<page, type>>
    wk_room,       \* work -> free entries of the current vector block
    wk_next,       \* work -> a page is reserved as the next vector block
    wk_nr,         \* work -> nr_pages
    wk_slot,       \* work -> compressed_pages[0]: [kind, page]
    wk_io,         \* work -> "none", "ok" or "failed": the read of its slot
    wk_res,        \* work -> result of z_erofs_vle_unzip
    wk_decomp,     \* work -> plain copy or a decompressor was invoked
    pg_id,         \* page -> index recorded by z_erofs_onlinepage_fixup
    pg_err         \* page -> PageError

pvars == <<img_bnd, img_pa, fe_pc, fe_page, fe_end, fe_cur, fe_spiltted, fe_tight,
           fe_type, fe_map, fe_work, fe_role, fe_deficit, fe_ret, wk_vec, wk_room,
           wk_next, wk_nr, wk_slot, wk_io, wk_res, wk_decomp, pg_id, pg_err>>

fvars == <<wg_live, wg_ref, wg_slot, wg_mutex, wg_cb, wg_wait, workstn, pg_private,
           pg_lock, fpc, fptr, frcu, dfree, fret, pg_count, pg_frame>>

VARIABLES
    \* one call of z_erofs_map_blocks_iter (MapSpec)
    di_index,      \* the cluster index: lcn -> z_erofs_vle_decompressed_index
    map_la,        \* map->m_la
    map_llen,      \* map->m_llen
    map_pa,        \* map->m_pa
    map_plen,      \* map->m_plen
    map_flags,     \* map->m_flags, the set of the flags that are set
    mb_pc,         \* "call", "head" (inside vle_get_logical_extent_head), "done"
    mb_lcn,        \* lcn of the next call of vle_get_logical_extent_head
    mb_end,        \* end
    mb_err,        \* "none" before the return; then "ok", "EIO"
    mb_reads,      \* the cluster numbers whose record was read, in order
    req_la,        \* m_la at entry
    req_llen,      \* m_llen at entry
    req_flags,     \* m_flags at entry
    mp_ret,        \* *mpage_ret: 0 (NULL) or the metadata block of the page
    mp_ref,        \* block -> references the caller holds on its page
    mp_locks,      \* block -> times the call has locked its page
    mp_unlocks,    \* block -> times the call has unlocked its page
    mp_faults      \* failures erofs_get_meta_page can still meet

mvars == <<di_index, map_la, map_llen, map_pa, map_plen, map_flags, mb_pc, mb_lcn,
           mb_end, mb_err, mb_reads, req_la, req_llen, req_flags,
           mp_ret, mp_ref, mp_locks, mp_unlocks, mp_faults>>

VARIABLES
    \* one io descriptor with its bios (KickSpec)
    k_bg,          \* the tag of bi_private: a background io
    k_preempt,     \* the kernel is built with CONFIG_PREEMPT_COUNT
    k_nr,          \* nr_bios of the submission
    k_pending,     \* io->pending_bios
    k_calls,       \* the calls of z_erofs_vle_unzip_kickoff: <<context, bios>>
    k_work,        \* io->u.work: "none", "queued", "done"
    k_woken,       \* wake_up_locked(&io->u.wait) was called
    k_unzip        \* the contexts that ran z_erofs_vle_unzip_wq, in order

kvars == <<k_bg, k_preempt, k_nr, k_pending, k_calls, k_work, k_woken, k_unzip>>

VARIABLES
    \* one compressed slot, its pages and the page pools (SlotSpec)
    c_slot,        \* grp->compressed_pages[0]
    c_cache,       \* the managed cache holds a page for the index of the slot
    c_uptodate,    \* PageUptodate of that page
    c_tag,         \* PagePrivate: page_private of that page is the workgroup
    c_ref,         \* page_count of that page
    c_pool,        \* thread -> pages on its page pool list
    c_pages,       \* pages the pools held at first or alloc_pages has given
    c_held,        \* thread -> the page it holds in a local variable
    c_old,         \* what the xchg of the submitter returned
    c_pc,          \* thread -> position
    c_lost,        \* thread -> the page it held when it last lost a cmpxchg
    c_before       \* the slot when z_erofs_vle_unzip began

cvars == <<c_slot, c_cache, c_uptodate, c_tag, c_ref, c_pool, c_pages, c_held,
           c_old, c_pc, c_lost, c_before>>

VARIABLES
    \* one tagged managed cache page under migration (SwapSpec)
    sw_slot,       \* grp->compressed_pages[0]: "NULL", "LOCKED", a page
    sw_mapping,    \* page -> page->mapping: "mc" or "NULL"
    sw_tag,        \* page -> PagePrivate, page_private is the workgroup
    sw_ref,        \* page -> references of the page cache and of the slot
    sw_plock,      \* page -> the thread that holds the lock of the page
    sw_uptodate,   \* PageUptodate of the page in the managed cache
    sw_mutex,      \* primary_work->lock: "free" or its holder
    sw_frozen,     \* grp->obj.refcount is EROFS_LOCKED_MAGIC
    sw_mode,       \* enum migrate_mode of the caller
    sw_pc,         \* thread -> position
    sw_page,       \* the local page of grab_page_for_submission
    sw_locking,    \* the local locking of erofs_migrate_cached_page
    sw_ret,        \* what erofs_migrate_cached_page returned last
    sw_calls       \* calls of erofs_migrate_cached_page so far

swvars == <<sw_slot, sw_mapping, sw_tag, sw_ref, sw_plock, sw_uptodate, sw_mutex,
            sw_frozen, sw_mode, sw_pc, sw_page, sw_locking, sw_ret, sw_calls>>

xvars == <<kvars, cvars, swvars>>

avars == <<fvars, pvars, mvars, xvars>>

\* VLE_FRONTEND_INIT, VLE_WORK_BUILDER_INIT; an empty registry
\* ---- workgroup lifetime: objects, threads, initial state ------------------
\* one key; every creator can hold one object of its own
WgObjs == 1..NReaders
Shrinker == NReaders + 1
Releaser == NReaders + 2
Migrator == NReaders + 3
FThreads == 1..(NReaders + 3)
\* the value of obj.refcount while the workgroup is frozen (negative)
EROFS_LOCKED_MAGIC == 0 - 1

FreeStart ==
    /\ wg_live = [o \in WgObjs |-> FALSE]
    /\ wg_ref = [o \in WgObjs |-> 0]
    /\ wg_slot = [o \in WgObjs |-> FALSE]
    /\ wg_mutex = [o \in WgObjs |-> 0]
    /\ wg_cb = [o \in WgObjs |-> 0]
    /\ wg_wait = [o \in WgObjs |-> {}]
    /\ workstn = 0
    /\ pg_private = 0
    /\ pg_lock = 0
    /\ fpc = [t \in FThreads |-> "idle"]
    /\ fptr = [t \in FThreads |-> 0]
    /\ frcu = [t \in FThreads |-> FALSE]
    /\ dfree = FALSE
    /\ fret = [t \in FThreads |-> "none"]
    \* the page cache holds the page
    /\ pg_count = 1
    /\ pg_frame = 0

\* ---- one read operation over a file: image, pages, initial state ----------
\* logical positions of the file, PageUnits per page
FileLen == NPages * PageUnits
FilePages == 0..(NPages - 1)
\* the staging page: page->mapping == Z_EROFS_MAPPING_STAGING
StagingPage == 0 - 1
\* the extent of position u starts at the last boundary at or before u
ExtentStart(bnd, u) == CHOOSE b \in bnd : b <= u /\ \A c \in bnd : c <= u => c <= b

\* VLE_FRONTEND_INIT and z_erofs_vle_normalaccess_readpages: the pages are
\* walked from the highest index down; the image is any partition of the
\* file into extents, each with a physical cluster
PageStart ==
    /\ img_bnd \in {b \in SUBSET (0..(FileLen - 1)) : 0 \in b}
    /\ img_pa \in [0..(FileLen - 1) -> Keys]
    /\ \A u \in 0..(FileLen - 1) : u \notin img_bnd => img_pa[u] = 1
    /\ fe_pc = "page"
    /\ fe_page = NPages - 1
    /\ fe_end = 0
    /\ fe_cur = 0
    /\ fe_spiltted = 0
    /\ fe_tight = FALSE
    /\ fe_type = "EXCLUSIVE"
    /\ fe_map = [m_la |-> 0, m_llen |-> 0]
    /\ fe_work = 0
    /\ fe_role = Z_EROFS_VLE_WORK_PRIMARY_FOLLOWED
    /\ fe_deficit = 0
    /\ fe_ret = "none"
    /\ wk_vec = [w \in Keys |-> <<>>]
    /\ wk_room = [w \in Keys |-> VecRoom]
    /\ wk_next = [w \in Keys |-> FALSE]
    /\ wk_nr = [w \in Keys |-> 0]
    /\ wk_slot = [w \in Keys |-> [kind |-> "NULL", page |-> StagingPage]]
    /\ wk_io = [w \in Keys |-> "none"]
    /\ wk_res = [w \in Keys |-> "none"]
    /\ wk_decomp = [w \in Keys |-> FALSE]
    /\ pg_id = [q \in FilePages |-> 0]
    /\ pg_err = [q \in FilePages |-> FALSE]

\* ---- one call of the extent index resolver: index, request, initial state --
ClusterSize == 2 ^ ClusterBits
\* inode->i_size: the file fills its clusters
ISize == NClusters * ClusterSize
Lcns == 0..(NClusters - 1)

\* struct z_erofs_vle_decompressed_index: the type of di_advise (the two type
\* bits are PLAIN, HEAD, NONHEAD or a reserved value; the build is without
\* CONFIG_EROFS_FS_HUAWEI_EXTENSION), di_clusterofs and the union di_u, of
\* which delta[0] is the low 16 bits of blkaddr.  The
\* code reads no di_clusterofs of a NONHEAD record and neither field of a
\* reserved record, so those are drawn as 0.  di_clusterofs is 16 bits on disk
\* and may be as large as the cluster size in a corrupted index.
\* the block addresses drawn for di_u.blkaddr of a PLAIN or HEAD record: two
\* values tell the record an address comes from apart from its neighbour
Blkaddrs == {0, 1}

Records ==
    [type : {"PLAIN", "HEAD"}, clusterofs : 0..ClusterSize, u : Blkaddrs]
    \cup [type : {"NONHEAD"}, clusterofs : {0}, u : Lcns]
    \cup [type : {"RESERVED"}, clusterofs : {0}, u : {0}]

RecordsPerBlock == 2   \* records of the index one metadata block holds
MaxFaults == 1     \* failures of erofs_get_meta_page during one call
\* the metadata blocks of the index; 0 stands for no page
MetaBlocks == 1..(1 + NClusters \div RecordsPerBlock)

\* the caller holds no metadata page and no read fails
NoMetaPage ==
    /\ mp_ret = 0
    /\ mp_ref = [b \in MetaBlocks |-> 0]
    /\ mp_locks = [b \in MetaBlocks |-> 0]
    /\ mp_unlocks = [b \in MetaBlocks |-> 0]
    /\ mp_faults = 0

\* m_pa and m_plen of a map in walking mode: what the earlier call, which
\* mapped the extent, has left there (the block 1, one cluster)
left_pa(la, llen) == IF llen # 0 /\ la < ISize THEN PageUnits ELSE 0
left_plen(la, llen) == IF llen # 0 /\ la < ISize THEN ClusterSize ELSE 0

\* the state of struct erofs_map_blocks before the call; m_llen == 0 is the
\* initial mode, anything else the walking mode; the caller uses the map
\* again, so m_flags is empty or what an earlier call has left
MapStart ==
    /\ di_index \in [Lcns -> Records]
    /\ map_la \in 0..(ISize + 1)
    /\ map_llen \in 0..1
    /\ map_pa = left_pa(map_la, map_llen)
    /\ map_plen = left_plen(map_la, map_llen)
    /\ map_flags \in {{}, {"MAPPED"}, {"MAPPED", "ZIPPED"}}
    /\ mb_pc = "call"
    /\ mb_lcn = 0
    /\ mb_end = 0
    /\ mb_err = "none"
    /\ mb_reads = <<>>
    /\ req_la = map_la
    /\ req_llen = map_llen
    /\ req_flags = map_flags
    /\ NoMetaPage

\* the records that differ in how the call treats the metadata pages: the
\* block address of a PLAIN or HEAD record plays no part
MetaRecords == {di \in Records : di.type \in {"PLAIN", "HEAD"} => di.u = 0}

\* a call of z_erofs_map_blocks_iter by z_erofs_do_read_page: m_iter.mpage
\* is NULL or the page an earlier call has left, with its one reference;
\* erofs_get_meta_page may fail
MetaStart ==
    /\ di_index \in [Lcns -> MetaRecords]
    /\ map_la \in 0..ISize
    /\ map_llen \in 0..1
    /\ map_pa = left_pa(map_la, map_llen)
    /\ map_plen = left_plen(map_la, map_llen)
    /\ map_flags = {}
    /\ mb_pc = "call"
    /\ mb_lcn = 0
    /\ mb_end = 0
    /\ mb_err = "none"
    /\ mb_reads = <<>>
    /\ req_la = map_la
    /\ req_llen = map_llen
    /\ req_flags = map_flags
    /\ mp_ret \in {0} \cup MetaBlocks
    /\ mp_ref = [b \in MetaBlocks |-> IF b = mp_ret THEN 1 ELSE 0]
    /\ mp_locks = [b \in MetaBlocks |-> 0]
    /\ mp_unlocks = [b \in MetaBlocks |-> 0]
    /\ mp_faults \in 0..MaxFaults



\* ---- one io descriptor: initial state -----------------------------------------
MaxBios == 3       \* bios one submission creates (KickSpec)

\* prepare_io_handler: pending_bios is 0, the work is initialised and not
\* queued; the walk of z_erofs_vle_submit_all has created nr_bios bios
KickStart ==
    /\ k_bg \in BOOLEAN
    /\ k_preempt \in BOOLEAN
    /\ k_nr \in 0..MaxBios
    /\ k_pending = 0
    /\ k_calls = <<>>
    /\ k_work = "none"
    /\ k_woken = FALSE
    /\ k_unzip = <<>>


\* ---- one compressed slot: threads and initial state -----------------------
Builder == "builder"        \* a read operation inside its work, role TERMINAL
Submitter == "submitter"    \* the owner of the chain, in z_erofs_vle_submit_all
Unzipper == "unzip"         \* the thread that runs z_erofs_vle_unzip
PoolStart == 1     \* pages a page pool list can hold at first (SlotSpec)

\* the slot is NULL; the managed cache may hold a page for its index that an
\* earlier workgroup left there, untagged; the builder holds work->lock
SlotStart ==
    /\ c_slot = NullSlot
    /\ c_cache \in BOOLEAN
    /\ c_uptodate \in {u \in BOOLEAN : u => c_cache}
    /\ c_tag = FALSE
    /\ c_ref = IF c_cache THEN 1 ELSE 0
    /\ c_pool \in [{Builder, Submitter, Unzipper} -> 0..PoolStart]
    /\ c_pool[Unzipper] = 0
    /\ c_pages = c_pool[Builder] + c_pool[Submitter]
    /\ c_held = [t \in {Builder, Submitter} |-> "none"]
    /\ c_old = NullSlot
    /\ c_pc = [t \in {Builder, Submitter, Unzipper} |->
                 CASE t = Builder -> "b_read" [] t = Submitter -> "s_xchg"
                   [] OTHER -> "u_wait"]
    /\ c_lost = [t \in {Builder, Submitter} |-> "none"]
    /\ c_before = NullSlot


\* ---- migration of a cached page: pages, threads, initial state ------------
OldPage == "old"            \* the page the migration core wants to move
NewPage == "new"            \* the page it allocated as the target
Mover == "migrate"          \* the caller of erofs_migrate_cached_page
Holder == "holder"          \* a builder or a pass that holds work->lock
MaxMoves == 2      \* calls of erofs_migrate_cached_page (SwapSpec)

\* the old page is in the managed cache; tagged, the slot holds it and its
\* reference; untagged (reclaimed from the workgroup), the slot is empty.
\* The chain owner may be about to submit the workgroup; a frozen workgroup
\* is on no chain.
SwapStart ==
    /\ sw_tag \in {[p \in {OldPage, NewPage} |-> p = OldPage /\ t] : t \in BOOLEAN}
    /\ sw_slot = IF sw_tag[OldPage] THEN OldPage ELSE "NULL"
    /\ sw_mapping = [p \in {OldPage, NewPage} |-> IF p = OldPage THEN "mc" ELSE "NULL"]
    /\ sw_ref = [p \in {OldPage, NewPage} |->
                    IF p = NewPage THEN 0 ELSE IF sw_tag[OldPage] THEN 2 ELSE 1]
    /\ sw_plock = [p \in {OldPage, NewPage} |-> "free"]
    /\ sw_uptodate \in BOOLEAN
    /\ sw_mutex \in {"free", Holder}
    /\ sw_pc \in {[t \in {Mover, Submitter} |->
                     IF t = Mover THEN "idle" ELSE s] : s \in {"s_xchg", "s_none"}}
    /\ sw_frozen \in {f \in BOOLEAN : f => sw_pc[Submitter] = "s_none"}
    /\ sw_mode \in {"MIGRATE_ASYNC", "MIGRATE_SYNC"}
    /\ sw_page = "NULL"
    /\ sw_locking = FALSE
    /\ sw_ret = "none"
    /\ sw_calls = 0




MainStart ==
    /\ allocated = {}
    /\ registered = {}
    /\ gkey = [g \in Groups |-> 0]
    /\ refcount = [g \in Groups |-> 0]
    /\ next = [g \in Groups |-> NIL]
    /\ lock = [g \in Groups |-> 0]
    /\ pagevec = [g \in Groups |-> <<>>]
    /\ nr_pages = [g \in Groups |-> 0]
    /\ slot = [g \in Groups |-> NullSlot]
    /\ pc = [t \in Threads |-> IF t \in Readers THEN "map" ELSE "w_idle"]
    \* reader 1 is a ->readpage call (always synchronous), the others are
    \* asynchronous ->readpages calls
    /\ readpage = [r \in Readers |-> r = 1]
    /\ force_fg = [r \in Readers |-> r = 1]
    /\ owned_head = [r \in Readers |-> TAIL]
    /\ hosted = [r \in Readers |-> FALSE]
    /\ role = [r \in Readers |-> Z_EROFS_VLE_WORK_PRIMARY_FOLLOWED]
    /\ b_grp = [r \in Readers |-> 0]
    /\ deficit = [r \in Readers |-> 0]
    /\ idx = [r \in Readers |-> 0]
    /\ visits = [r \in Readers |-> 0]
    /\ err = [r \in Readers |-> FALSE]
    /\ online = [r \in Readers |-> 0]
    /\ s_owned = [r \in Readers |-> TAIL]
    /\ io_head = [r \in Readers |-> <<TAIL_CLOSED, TAIL_CLOSED>>]
    /\ lstgrp = [r \in Readers |-> <<0, 0>>]
    /\ nr_bios = [r \in Readers |-> 0]
    /\ bio = [r \in Readers |-> {}]
    /\ bio_open = [r \in Readers |-> FALSE]
    /\ force_submit = [r \in Readers |-> FALSE]
    /\ last_index = [r \in Readers |-> 0]
    /\ inflight = [r \in Readers |-> {}]
    /\ pending_bios = [r \in Readers |-> 0]
    /\ u_owned = [t \in Threads |-> TAIL_CLOSED]
    /\ u_grp = [t \in Threads |-> 0]
    /\ u_list = [t \in Threads |-> 0]
    /\ grants = [g \in Groups |-> <<>>]
    /\ passes = [g \in Groups |-> 0]
    /\ todo = [r \in Readers |-> {}]
    /\ trig = [r \in Readers |-> 0]

\* ---- the parts a specification leaves out -------------------------------
\* Every specification runs one part of the program. The variables of the
\* other parts are not in use in it: they hold 0 and no action changes them.
MainOff ==
    /\ allocated = 0
    /\ registered = 0
    /\ gkey = 0
    /\ refcount = 0
    /\ next = 0
    /\ lock = 0
    /\ pagevec = 0
    /\ nr_pages = 0
    /\ slot = 0
    /\ pc = 0
    /\ readpage = 0
    /\ force_fg = 0
    /\ owned_head = 0
    /\ hosted = 0
    /\ role = 0
    /\ b_grp = 0
    /\ deficit = 0
    /\ idx = 0
    /\ visits = 0
    /\ err = 0
    /\ online = 0
    /\ s_owned = 0
    /\ io_head = 0
    /\ lstgrp = 0
    /\ nr_bios = 0
    /\ bio = 0
    /\ bio_open = 0
    /\ force_submit = 0
    /\ last_index = 0
    /\ inflight = 0
    /\ pending_bios = 0
    /\ u_owned = 0
    /\ u_grp = 0
    /\ u_list = 0
    /\ grants = 0
    /\ passes = 0
    /\ todo = 0
    /\ trig = 0

FreeOff ==
    /\ wg_live = 0
    /\ wg_ref = 0
    /\ wg_slot = 0
    /\ wg_mutex = 0
    /\ wg_cb = 0
    /\ wg_wait = 0
    /\ workstn = 0
    /\ pg_private = 0
    /\ pg_lock = 0
    /\ fpc = 0
    /\ fptr = 0
    /\ frcu = 0
    /\ dfree = 0
    /\ fret = 0
    /\ pg_count = 0
    /\ pg_frame = 0

PageOff ==
    /\ img_bnd = 0
    /\ img_pa = 0
    /\ fe_pc = 0
    /\ fe_page = 0
    /\ fe_end = 0
    /\ fe_cur = 0
    /\ fe_spiltted = 0
    /\ fe_tight = 0
    /\ fe_type = 0
    /\ fe_map = 0
    /\ fe_work = 0
    /\ fe_role = 0
    /\ fe_deficit = 0
    /\ fe_ret = 0
    /\ wk_vec = 0
    /\ wk_room = 0
    /\ wk_next = 0
    /\ wk_nr = 0
    /\ wk_slot = 0
    /\ wk_io = 0
    /\ wk_res = 0
    /\ wk_decomp = 0
    /\ pg_id = 0
    /\ pg_err = 0

MapOff ==
    /\ di_index = 0
    /\ map_la = 0
    /\ map_llen = 0
    /\ map_pa = 0
    /\ map_plen = 0
    /\ map_flags = 0
    /\ mb_pc = 0
    /\ mb_lcn = 0
    /\ mb_end = 0
    /\ mb_err = 0
    /\ mb_reads = 0
    /\ req_la = 0
    /\ req_llen = 0
    /\ req_flags = 0
    /\ mp_ret = 0
    /\ mp_ref = 0
    /\ mp_locks = 0
    /\ mp_unlocks = 0
    /\ mp_faults = 0

KickOff ==
    /\ k_bg = 0
    /\ k_preempt = 0
    /\ k_nr = 0
    /\ k_pending = 0
    /\ k_calls = 0
    /\ k_work = 0
    /\ k_woken = 0
    /\ k_unzip = 0

SlotOff ==
    /\ c_slot = 0
    /\ c_cache = 0
    /\ c_uptodate = 0
    /\ c_tag = 0
    /\ c_ref = 0
    /\ c_pool = 0
    /\ c_pages = 0
    /\ c_held = 0
    /\ c_old = 0
    /\ c_pc = 0
    /\ c_lost = 0
    /\ c_before = 0

SwapOff ==
    /\ sw_slot = 0
    /\ sw_mapping = 0
    /\ sw_tag = 0
    /\ sw_ref = 0
    /\ sw_plock = 0
    /\ sw_uptodate = 0
    /\ sw_mutex = 0
    /\ sw_frozen = 0
    /\ sw_mode = 0
    /\ sw_pc = 0
    /\ sw_page = 0
    /\ sw_locking = 0
    /\ sw_ret = 0
    /\ sw_calls = 0

\* the state after construction: no read operation has started
Init ==
    /\ MainStart
    /\ FreeOff /\ PageOff /\ MapOff /\ KickOff /\ SlotOff /\ SwapOff

\* ---- workgroup registry (fs/erofs/utils.c) -------------------------------
\* erofs_find_workgroup: the registered workgroup of the key, 0 if none
erofs_find_workgroup(k) ==
    IF \E g \in registered : gkey[g] = k
    THEN CHOOSE g \in registered : gkey[g] = k
    ELSE 0

\* erofs_register_workgroup fails (-EEXIST) when the key is already present
erofs_register_workgroup_err(k) == \E g \in registered : gkey[g] = k

\* kmem_cache_zalloc: some free object (the one numbered like the key when
\* it is free, else the highest free one), 0 when there is none
FreeGroups == Groups \ allocated
kmem_cache_zalloc(k) ==
    IF k \in FreeGroups THEN k
    ELSE IF FreeGroups = {} THEN 0
    ELSE CHOOSE g \in FreeGroups : \A h \in FreeGroups : g >= h


ClusterPages == 1

\* ---- z_erofs_do_read_page: walking the extents of the read ---------------
\* a ->readpage call handles one page, which has at most two mapped parts
MaxSplit == 2
VisitLimit(r) == IF readpage[r] THEN MaxSplit ELSE MaxVisits

\* where z_erofs_do_read_page goes on an error: ->readpage leaves without
\* submitting, ->readpages logs the error and goes on with the next page
AfterError(r) == IF readpage[r] THEN "out" ELSE "map"

\* z_erofs_vle_work_lookup up to the mutex: erofs_find_workgroup takes a
\* reference on the workgroup it finds; without one, work_register is next
work_lookup_find(r, k) ==
    LET g == erofs_find_workgroup(k) IN
        IF g = 0
        THEN /\ b_grp' = [b_grp EXCEPT ![r] = 0]
             /\ pc' = [pc EXCEPT ![r] = "register"]
             /\ UNCHANGED refcount
        ELSE /\ refcount' = [refcount EXCEPT ![g] = @ + 1]
             /\ b_grp' = [b_grp EXCEPT ![r] = g]
             /\ pc' = [pc EXCEPT ![r] = "lock"]

\* erofs_map_blocks_iter maps the next part of the page to physical cluster
\* k, and z_erofs_vle_work_iter_begin looks the workgroup up
MapBlocks(r, k) ==
    /\ pc[r] = "map"
    /\ visits[r] < VisitLimit(r)
    /\ idx' = [idx EXCEPT ![r] = k]
    /\ visits' = [visits EXCEPT ![r] = @ + 1]
    /\ work_lookup_find(r, k)
    /\ UNCHANGED <<allocated, registered, gkey, next, lock, pagevec, nr_pages, slot,
                   readpage, force_fg, owned_head, hosted, role, deficit, err,
                   online, svars, uvars, hvars>>
    /\ UNCHANGED avars

\* erofs_map_blocks_iter fails (-EIO, or a metadata block cannot be read):
\* the part of the page is walked, no workgroup is looked up for it
MapError(r) ==
    /\ pc[r] = "map"
    /\ visits[r] < VisitLimit(r)
    /\ err' = [err EXCEPT ![r] = TRUE]
    /\ visits' = [visits EXCEPT ![r] = @ + 1]
    /\ pc' = [pc EXCEPT ![r] = AfterError(r)]
    /\ UNCHANGED <<gvars, readpage, force_fg, owned_head, hosted, role, b_grp,
                   deficit, idx, online, svars, uvars, hvars>>
    /\ UNCHANGED avars

\* ---- z_erofs_vle_work_lookup ---------------------------------------------
\* repeat: the lookup again, after a registration that lost the race
Lookup(r) ==
    /\ pc[r] = "lookup"
    /\ work_lookup_find(r, idx[r])
    /\ UNCHANGED <<allocated, registered, gkey, next, lock, pagevec, nr_pages, slot,
                   readpage, force_fg, owned_head, hosted, role, deficit, idx,
                   visits, err, online, svars, uvars, hvars>>
    /\ UNCHANGED avars

\* ---- try_to_claim_workgroup ----------------------------------------------
\* end of z_erofs_vle_work_iter_begin (got_it): the builder takes the work
GotIt(r, g, rl, hst) ==
    /\ role' = [role EXCEPT ![r] = rl]
    /\ hosted' = [hosted EXCEPT ![r] = hst]
    /\ deficit' = [deficit EXCEPT ![r] =
                     IF rl >= Z_EROFS_VLE_WORK_PRIMARY THEN ClusterPages ELSE 0]
    /\ grants' = [grants EXCEPT ![g] = IF hst THEN Append(@, r) ELSE @]
    \* z_erofs_vle_scan_cachepages returns at once under a role below
    \* PRIMARY_TERMINAL
    /\ pc' = [pc EXCEPT ![r] =
                IF rl >= Z_EROFS_VLE_WORK_PRIMARY_TERMINAL THEN "scan" ELSE "add"]

\* a type 1 claim that does not move the caller's chain head
try_to_claim_nil_keephead(r, g) ==
    IF next[g] = NIL
    THEN /\ next' = [next EXCEPT ![g] = owned_head[r]]
         /\ UNCHANGED owned_head
         /\ GotIt(r, g, Z_EROFS_VLE_WORK_PRIMARY_FOLLOWED, TRUE)
    ELSE /\ pc' = [pc EXCEPT ![r] = "claim"]
         /\ UNCHANGED <<next, owned_head, role, hosted, deficit, grants>>

\* type 1: cmpxchg(&grp->next, NIL, *owned_head)
try_to_claim_nil(r, g) ==
    IF next[g] = NIL
    THEN /\ next' = [next EXCEPT ![g] = owned_head[r]]
         /\ owned_head' = [owned_head EXCEPT ![r] = g]
         /\ GotIt(r, g, Z_EROFS_VLE_WORK_PRIMARY_FOLLOWED, TRUE)
    ELSE /\ pc' = [pc EXCEPT ![r] = "claim"]
         /\ UNCHANGED <<next, owned_head, role, hosted, deficit, grants>>

ClaimCasNil(r) ==
    /\ pc[r] = "cas_nil"
    /\ try_to_claim_nil(r, b_grp[r])
    /\ UNCHANGED <<allocated, registered, gkey, refcount, lock, pagevec, nr_pages,
                   slot, readpage, force_fg, b_grp, idx, visits, err, online, svars,
                   uvars, passes, todo, trig>>
    /\ UNCHANGED avars

\* tests that make the caller the host of a workgroup that is linked already
try_to_claim_read_hosted(r, g) ==
    IF next[g] = NIL
    THEN /\ pc' = [pc EXCEPT ![r] = "cas_nil"]
         /\ hosted' = [hosted EXCEPT ![r] = FALSE]
         /\ UNCHANGED <<role, deficit, grants>>
    ELSE IF next[g] = TAIL
    THEN /\ pc' = [pc EXCEPT ![r] = "cas_tail"]
         /\ hosted' = [hosted EXCEPT ![r] = FALSE]
         /\ UNCHANGED <<role, deficit, grants>>
    ELSE GotIt(r, g, Z_EROFS_VLE_WORK_PRIMARY, TRUE)

\* retry: the tests of grp->next: NIL (type 1), TAIL (type 2), or else the
\* workgroup is linked already and the role is PRIMARY; *hosted is false
\* since z_erofs_vle_work_lookup
try_to_claim_read(r, g) ==
    IF next[g] = NIL
    THEN /\ pc' = [pc EXCEPT ![r] = "cas_nil"]
         /\ hosted' = [hosted EXCEPT ![r] = FALSE]
         /\ UNCHANGED <<role, deficit, grants>>
    ELSE IF next[g] = TAIL
    THEN /\ pc' = [pc EXCEPT ![r] = "cas_tail"]
         /\ hosted' = [hosted EXCEPT ![r] = FALSE]
         /\ UNCHANGED <<role, deficit, grants>>
    ELSE GotIt(r, g, Z_EROFS_VLE_WORK_PRIMARY, FALSE)

\* z_erofs_vle_work_lookup after the find: mutex_lock(&work->lock);
\* *f->hosted = false; then the first tests of try_to_claim_workgroup
LockWork(r) ==
    /\ pc[r] = "lock"
    /\ lock[b_grp[r]] = 0
    /\ lock' = [lock EXCEPT ![b_grp[r]] = r]
    /\ try_to_claim_read(r, b_grp[r])
    /\ UNCHANGED <<allocated, registered, gkey, refcount, next, pagevec, nr_pages,
                   slot, readpage, force_fg, owned_head, b_grp, idx, visits, err,
                   online, svars, uvars, passes, todo, trig>>
    /\ UNCHANGED avars

\* the tests again after a cmpxchg that failed
ClaimRead(r) ==
    /\ pc[r] = "claim"
    /\ try_to_claim_read(r, b_grp[r])
    /\ UNCHANGED <<gvars, readpage, force_fg, owned_head, b_grp, idx, visits, err,
                   online, svars, uvars, passes, todo, trig>>
    /\ UNCHANGED avars

\* a type 2 claim that makes the caller a host as well
try_to_claim_tail_hosted(r, g) ==
    IF next[g] = TAIL
    THEN /\ next' = [next EXCEPT ![g] = owned_head[r]]
         /\ owned_head' = [owned_head EXCEPT ![r] = TAIL]
         /\ GotIt(r, g, Z_EROFS_VLE_WORK_PRIMARY_TERMINAL, TRUE)
    ELSE /\ pc' = [pc EXCEPT ![r] = "claim"]
         /\ UNCHANGED <<next, owned_head, role, hosted, deficit, grants>>

\* a type 2 claim that keeps the caller's chain head
try_to_claim_tail_keephead(r, g) ==
    IF next[g] = TAIL
    THEN /\ next' = [next EXCEPT ![g] = owned_head[r]]
         /\ UNCHANGED owned_head
         /\ GotIt(r, g, Z_EROFS_VLE_WORK_PRIMARY_TERMINAL, hosted[r])
    ELSE /\ pc' = [pc EXCEPT ![r] = "claim"]
         /\ UNCHANGED <<next, owned_head, role, hosted, deficit, grants>>

\* type 2: cmpxchg(&grp->next, TAIL, *owned_head)
try_to_claim_tail(r, g) ==
    IF next[g] = TAIL
    THEN /\ next' = [next EXCEPT ![g] = owned_head[r]]
         /\ owned_head' = [owned_head EXCEPT ![r] = TAIL]
         /\ GotIt(r, g, Z_EROFS_VLE_WORK_PRIMARY_TERMINAL, hosted[r])
    ELSE /\ pc' = [pc EXCEPT ![r] = "claim"]
         /\ UNCHANGED <<next, owned_head, role, hosted, deficit, grants>>

ClaimCasTail(r) ==
    /\ pc[r] = "cas_tail"
    /\ try_to_claim_tail(r, b_grp[r])
    /\ UNCHANGED <<allocated, registered, gkey, refcount, lock, pagevec, nr_pages,
                   slot, readpage, force_fg, b_grp, idx, visits, err, online, svars,
                   uvars, passes, todo, trig>>
    /\ UNCHANGED avars

\* ---- z_erofs_vle_work_register -------------------------------------------
\* kmem_cache_zalloc fails: z_erofs_vle_work_iter_begin returns -ENOMEM
RegisterNoMem(r) ==
    /\ pc[r] = "register"
    /\ err' = [err EXCEPT ![r] = TRUE]
    /\ hosted' = [hosted EXCEPT ![r] = FALSE]
    /\ role' = [role EXCEPT ![r] = Z_EROFS_VLE_WORK_PRIMARY_FOLLOWED]
    /\ idx' = [idx EXCEPT ![r] = 0]
    /\ pc' = [pc EXCEPT ![r] = AfterError(r)]
    /\ UNCHANGED <<gvars, readpage, force_fg, owned_head, b_grp, deficit, visits,
                   online, svars, uvars, hvars>>
    /\ UNCHANGED avars

\* erofs_register_workgroup succeeded: the new workgroup is claimed as type 1
work_register_ok(r, g) ==
    /\ allocated' = allocated \cup {g}
    /\ registered' = registered \cup {g}
    /\ gkey' = [gkey EXCEPT ![g] = idx[r]]
    /\ refcount' = [refcount EXCEPT ![g] = 2]
    /\ next' = [next EXCEPT ![g] = owned_head[r]]
    /\ lock' = [lock EXCEPT ![g] = r]
    /\ pagevec' = [pagevec EXCEPT ![g] = <<>>]
    /\ nr_pages' = [nr_pages EXCEPT ![g] = 0]
    /\ slot' = [slot EXCEPT ![g] = NullSlot]
    /\ owned_head' = [owned_head EXCEPT ![r] = g]
    /\ b_grp' = [b_grp EXCEPT ![r] = g]
    /\ GotIt(r, g, Z_EROFS_VLE_WORK_PRIMARY_FOLLOWED, TRUE)

\* a creator that goes on with its duplicate although the registration failed
work_register_dup(r, g) == work_register_ok(r, g)

\* erofs_register_workgroup failed: unlock, free the duplicate, -EAGAIN (repeat)
work_register_err(r, g) ==
    /\ role' = [role EXCEPT ![r] = Z_EROFS_VLE_WORK_PRIMARY_FOLLOWED]
    /\ hosted' = [hosted EXCEPT ![r] = TRUE]
    /\ pc' = [pc EXCEPT ![r] = "lookup"]
    /\ UNCHANGED <<gvars, owned_head, b_grp, deficit, grants>>

Register(r) ==
    /\ pc[r] = "register"
    /\ kmem_cache_zalloc(idx[r]) # 0
    /\ IF erofs_register_workgroup_err(idx[r])
       THEN work_register_err(r, kmem_cache_zalloc(idx[r]))
       ELSE work_register_ok(r, kmem_cache_zalloc(idx[r]))
    /\ UNCHANGED <<readpage, force_fg, idx, visits, err, online, svars,
                   uvars, passes, todo, trig>>
    /\ UNCHANGED avars


\* ---- z_erofs_vle_scan_cachepages -----------------------------------------
\* a scan that stores its page whatever the slot holds
scan_cachepages_overwrites(g, reserve) ==
    IF reserve THEN PreallocSlot ELSE slot[g]

\* Only a builder of role >= PRIMARY_TERMINAL scans.  The managed cache holds
\* a page for the index only while the slot holds it, so find_get_page finds
\* nothing for an empty slot; reserve: reserve_allocation was asked for (the
\* first work of the read, or the cached zone) and a page could be taken.
\* A slot that is filled on return makes the work standalone: role PRIMARY.
scan_cachepages_slot(g, reserve) ==
    IF slot[g].kind = "NULL" /\ reserve THEN PreallocSlot ELSE slot[g]

scan_cachepages_role(r, g, reserve) ==
    IF slot[g].kind = "NULL" /\ ~reserve THEN role[r] ELSE Z_EROFS_VLE_WORK_PRIMARY

ScanCachePages(r) ==
    /\ pc[r] = "scan"
    /\ LET g == b_grp[r] IN
        IF role[r] < Z_EROFS_VLE_WORK_PRIMARY_TERMINAL
        THEN UNCHANGED <<slot, role>>
        ELSE \E reserve \in BOOLEAN :
                /\ slot' = [slot EXCEPT ![g] = scan_cachepages_slot(g, reserve)]
                /\ role' = [role EXCEPT ![r] = scan_cachepages_role(r, g, reserve)]
    /\ pc' = [pc EXCEPT ![r] = "add"]
    /\ UNCHANGED <<allocated, registered, gkey, refcount, next, lock, pagevec,
                   nr_pages, readpage, force_fg, owned_head, hosted, b_grp, deficit,
                   idx, visits, err, online, svars, uvars, hvars>>
    /\ UNCHANGED avars

\* ---- z_erofs_vle_work_add_page -------------------------------------------
\* try_to_reuse_as_compressed_page is tried for an EXCLUSIVE page under a
\* role >= PRIMARY; it consumes the deficit whether or not it wins the slot
reuse_tried(r, type) ==
    /\ role[r] >= Z_EROFS_VLE_WORK_PRIMARY
    /\ type = "EXCLUSIVE"
    /\ deficit[r] > 0

reuse_won(r, g, type) == reuse_tried(r, type) /\ slot[g].kind = "NULL"

\* the page goes into the compressed slot, or else into the page vector;
\* then z_erofs_onlinepage_fixup and the nr_pages update of the caller
AddPage(r, type, i) ==
    /\ pc[r] = "add"
    /\ LET g == b_grp[r] IN
        /\ deficit' = [deficit EXCEPT ![r] = IF reuse_tried(r, type) THEN 0 ELSE @]
        /\ IF reuse_won(r, g, type)
           THEN /\ slot' = [slot EXCEPT ![g] = FileSlot(r)]
                /\ UNCHANGED pagevec
           ELSE /\ pagevec' = [pagevec EXCEPT ![g] = Append(@, <<r, type>>)]
                /\ UNCHANGED slot
        /\ nr_pages' = [nr_pages EXCEPT ![g] = Max(@, i + 1)]
    /\ online' = [online EXCEPT ![r] = @ + 1]
    /\ pc' = [pc EXCEPT ![r] = "iter_end"]
    /\ UNCHANGED <<allocated, registered, gkey, refcount, next, lock, readpage,
                   force_fg, owned_head, hosted, role, b_grp, idx, visits, err,
                   svars, uvars, hvars>>
    /\ UNCHANGED avars

\* ---- z_erofs_vle_work_iter_end -------------------------------------------
\* an iter_end that puts the reference of a hosted work too
iter_end_put_always(r) == TRUE

\* the reference is put at once unless the work is hosted by the builder
iter_end_put(r) == ~hosted[r]

IterEnd(r) ==
    /\ pc[r] = "iter_end"
    /\ LET g == b_grp[r] IN
        /\ lock' = [lock EXCEPT ![g] = 0]
        /\ refcount' = [refcount EXCEPT ![g] = IF iter_end_put(r) THEN @ - 1 ELSE @]
    /\ b_grp' = [b_grp EXCEPT ![r] = 0]
    \* builder->work = NULL: the other builder fields and the finder are dead
    \* until the next z_erofs_vle_work_iter_begin writes them again
    /\ hosted' = [hosted EXCEPT ![r] = FALSE]
    /\ role' = [role EXCEPT ![r] = Z_EROFS_VLE_WORK_PRIMARY_FOLLOWED]
    /\ deficit' = [deficit EXCEPT ![r] = 0]
    /\ idx' = [idx EXCEPT ![r] = 0]
    /\ pc' = [pc EXCEPT ![r] = "map"]
    /\ UNCHANGED <<allocated, registered, gkey, next, pagevec, nr_pages, slot,
                   readpage, force_fg, owned_head, visits, err, online, svars,
                   uvars, hvars>>
    /\ UNCHANGED avars


\* ---- z_erofs_vle_submit_all ----------------------------------------------
\* The read operation has no further page and calls z_erofs_submit_and_unzip.
\* An empty owned chain: nothing to submit, z_erofs_submit_and_unzip returns;
\* else prepare_io_handler for both descriptors, ios[1]->head = owned_head
SubmitEnter(r) ==
    /\ pc[r] = "map"
    /\ IF owned_head[r] = TAIL
       THEN /\ pc' = [pc EXCEPT ![r] = "out"]
            /\ UNCHANGED svars
       ELSE /\ pc' = [pc EXCEPT ![r] = "walk"]
            /\ s_owned' = [s_owned EXCEPT ![r] = owned_head[r]]
            /\ io_head' = [io_head EXCEPT ![r] = <<TAIL_CLOSED, owned_head[r]>>]
            /\ lstgrp' = [lstgrp EXCEPT ![r] = <<0, 0>>]
            /\ nr_bios' = [nr_bios EXCEPT ![r] = 0]
            /\ bio' = [bio EXCEPT ![r] = {}]
            /\ bio_open' = [bio_open EXCEPT ![r] = FALSE]
            /\ force_submit' = [force_submit EXCEPT ![r] = FALSE]
            /\ pending_bios' = [pending_bios EXCEPT ![r] = 0]
            /\ UNCHANGED <<last_index, inflight>>
    \* the frontend is not read again: its chain is in the hands of the walk
    /\ owned_head' = [owned_head EXCEPT ![r] = TAIL]
    /\ visits' = [visits EXCEPT ![r] = 0]
    /\ UNCHANGED <<gvars, readpage, force_fg, hosted, role, b_grp, deficit, idx,
                   err, online, uvars, hvars>>
    /\ UNCHANGED avars

\* a walk that leaves the tail of the chain open
submit_noclose(nx) == nx

\* owned_head = cmpxchg(&grp->next, TAIL, TAIL_CLOSED): the new value of next
submit_close(nx) == IF nx = TAIL THEN TAIL_CLOSED ELSE nx

\* z_erofs_workgrp_grab_page_for_submission: the slot afterwards.  An empty
\* slot gets a staging page; a preallocated page enters the managed cache
\* (cached) or, if add_to_page_cache_lru fails, becomes a staging page; a
\* managed page is locked, and unlocked again if it is already up to date
grab_page_slot(sl, cached) ==
    CASE sl.kind = "NULL" -> StagingSlot
      [] sl.kind = "PREALLOC" -> IF cached THEN CachedSlot(FALSE, TRUE) ELSE StagingSlot
      [] sl.kind = "CACHED" -> CachedSlot(sl.uptodate, ~sl.uptodate)
      [] sl.kind = "FOUND" -> CachedSlot(sl.uptodate, ~sl.uptodate)
      [] OTHER -> sl

\* a grab that takes every managed cache page for one that needs no read
grab_page_noio_cached(sl) == sl.kind = "CACHED"

\* z_erofs_workgrp_grab_page_for_submission returns NULL: no read is needed
grab_page_noio(sl) == sl.kind = "CACHED" /\ sl.uptodate

\* a walk that submits the running bio only when it is full
bio_flush_when_full(open, fs, full) == open /\ full

\* __submit_bio of the running bio before the page is added: force_submit is
\* set, or bio_add_page took less than PAGE_SIZE (full; the block layer
\* decides that, and a new bio always takes its first page)
bio_flush(open, fs, full) == open /\ (fs \/ full)

\* one round of the do-while loop over the owned chain
SubmitWalk(r) ==
    /\ pc[r] = "walk"
    /\ s_owned[r] \in Groups
    /\ \E full \in BOOLEAN :
       LET g == s_owned[r]
           nxt == next[g]
           noio == grab_page_noio(slot[g])
           first_index == gkey[g]
           fs == force_submit[r] \/ first_index # last_index[r] + 1
           flush == ~noio /\ bio_flush(bio_open[r], fs, full)
           iogrp_next == IF nxt = TAIL THEN TAIL_CLOSED ELSE nxt
           n1 == [next EXCEPT ![g] = submit_close(nxt)]
           n2 == IF noio /\ lstgrp[r][2] # 0
                 THEN [n1 EXCEPT ![lstgrp[r][2]] = iogrp_next] ELSE n1
           n3 == IF noio /\ lstgrp[r][1] # 0
                 THEN [n2 EXCEPT ![lstgrp[r][1]] = g] ELSE n2
       IN
        \* lock_page waits while the managed page is under read
        /\ ~(slot[g].kind = "CACHED" /\ slot[g].locked)
        /\ \E cached \in BOOLEAN :
             slot' = [slot EXCEPT ![g] = grab_page_slot(slot[g], cached)]
        /\ s_owned' = [s_owned EXCEPT ![r] = nxt]
        /\ next' = n3
        /\ inflight' = [inflight EXCEPT ![r] =
                          IF flush THEN @ \cup {<<nr_bios[r], bio[r]>>} ELSE @]
        /\ nr_bios' = [nr_bios EXCEPT ![r] =
                          IF ~noio /\ (flush \/ ~bio_open[r]) THEN @ + 1 ELSE @]
        /\ bio' = [bio EXCEPT ![r] =
                          IF noio THEN @ ELSE IF flush THEN {g} ELSE @ \cup {g}]
        /\ bio_open' = [bio_open EXCEPT ![r] = @ \/ ~noio]
        /\ force_submit' = [force_submit EXCEPT ![r] = noio]
        /\ last_index' = [last_index EXCEPT ![r] = IF noio THEN @ ELSE first_index]
        /\ io_head' = [io_head EXCEPT ![r] =
                          IF noio
                          THEN <<IF lstgrp[r][1] = 0 THEN g ELSE @[1],
                                 IF lstgrp[r][2] = 0 THEN iogrp_next ELSE @[2]>>
                          ELSE @]
        /\ lstgrp' = [lstgrp EXCEPT ![r] = IF noio THEN <<g, @[2]>> ELSE <<@[1], g>>]
        /\ todo' = [todo EXCEPT ![r] = @ \cup {g}]
        /\ pc' = [pc EXCEPT ![r] = IF nxt = TAIL THEN "walk_end" ELSE "walk"]
    /\ UNCHANGED <<allocated, registered, gkey, refcount, lock, pagevec, nr_pages,
                   rvars, pending_bios, uvars, grants, passes, trig>>
    /\ UNCHANGED avars

\* after the loop: the last bio is submitted and the no-I/O list is closed;
\* a background submission without any bio frees its descriptor and returns
SubmitEnd(r) ==
    /\ pc[r] = "walk_end"
    /\ inflight' = [inflight EXCEPT ![r] =
                      IF bio_open[r] THEN @ \cup {<<nr_bios[r], bio[r]>>} ELSE @]
    /\ bio_open' = [bio_open EXCEPT ![r] = FALSE]
    /\ bio' = [bio EXCEPT ![r] = {}]
    /\ next' = IF lstgrp[r][1] # 0
               THEN [next EXCEPT ![lstgrp[r][1]] = TAIL_CLOSED] ELSE next
    /\ IF ~force_fg[r] /\ nr_bios[r] = 0
       THEN /\ pc' = [pc EXCEPT ![r] = "ua"]
            /\ u_owned' = [u_owned EXCEPT ![r] = io_head[r][1]]
            /\ u_list' = [u_list EXCEPT ![r] = 1]
       ELSE /\ pc' = [pc EXCEPT ![r] = "kickoff"]
            /\ UNCHANGED <<u_owned, u_list>>
    \* the locals of the walk are dead from here on
    /\ s_owned' = [s_owned EXCEPT ![r] = TAIL]
    /\ lstgrp' = [lstgrp EXCEPT ![r] = <<0, 0>>]
    /\ force_submit' = [force_submit EXCEPT ![r] = FALSE]
    /\ last_index' = [last_index EXCEPT ![r] = 0]
    /\ UNCHANGED <<allocated, registered, gkey, refcount, lock, pagevec, nr_pages,
                   slot, rvars, io_head, nr_bios, pending_bios, u_grp, hvars>>
    /\ UNCHANGED avars


\* ---- z_erofs_vle_unzip_kickoff -------------------------------------------
\* a trigger that fires whenever the counter is not positive
kickoff_fires_early(pending, bios) == pending + bios <= 0

\* atomic_add_return(bios, &io->pending_bios) returned zero
kickoff_fires(pending, bios) == pending + bios = 0

\* the add; when it fires, a background io queues z_erofs_vle_unzip_wq (the
\* worker starts on ios[1]) and a foreground io wakes the waiter.  The
\* submitter (bios >= 0) goes on to z_erofs_vle_unzip_all(sb, &io[0], pagepool)
unzip_kickoff(r, bios) ==
    /\ pending_bios' = [pending_bios EXCEPT ![r] = @ + bios]
    /\ trig' = [trig EXCEPT ![r] =
                  IF kickoff_fires(pending_bios[r], bios) THEN @ + 1 ELSE @]
    /\ kickoff_fires(pending_bios[r], bios) /\ ~force_fg[r]
          => pc[WorkerOf(r)] = "w_idle"
    /\ u_owned' = [t \in Threads |->
                     IF t = WorkerOf(r) /\ kickoff_fires(pending_bios[r], bios)
                                       /\ ~force_fg[r]
                     THEN io_head[r][2]
                     ELSE IF t = r /\ bios >= 0 THEN io_head[r][1]
                     ELSE u_owned[t]]
    /\ u_list' = [t \in Threads |->
                     IF t = WorkerOf(r) /\ kickoff_fires(pending_bios[r], bios)
                                       /\ ~force_fg[r]
                     THEN 2
                     ELSE IF t = r /\ bios >= 0 THEN 1
                     ELSE u_list[t]]

queues_work(r, bios) == kickoff_fires(pending_bios[r], bios) /\ ~force_fg[r]

\* end of z_erofs_vle_submit_all: the submitter adds nr_bios, then
\* z_erofs_submit_and_unzip decompresses the no-I/O list ios[0]
Kickoff(r) ==
    /\ pc[r] = "kickoff"
    /\ unzip_kickoff(r, nr_bios[r])
    /\ pc' = [pc EXCEPT ![r] = "ua",
                        ![WorkerOf(r)] = IF queues_work(r, nr_bios[r]) THEN "ua" ELSE @]
    /\ UNCHANGED <<gvars, rvars, s_owned, io_head, lstgrp, nr_bios, bio, bio_open,
                   force_submit, last_index, inflight, u_grp, grants, passes, todo>>
    /\ UNCHANGED avars

\* ---- z_erofs_vle_read_endio ----------------------------------------------
\* a managed cache page of the bio is marked up to date (unless the read
\* failed) and unlocked
endio_slot(sl, ioerr) ==
    IF sl.kind = "CACHED" /\ sl.locked THEN CachedSlot(~ioerr, FALSE) ELSE sl

\* a submitted bio completes, with or without an I/O error
ReadEndIO(r, b, ioerr) ==
    /\ b \in inflight[r]
    /\ inflight' = [inflight EXCEPT ![r] = @ \ {b}]
    /\ slot' = [g \in Groups |-> IF g \in b[2] THEN endio_slot(slot[g], ioerr) ELSE slot[g]]
    /\ unzip_kickoff(r, -1)
    /\ pc' = [pc EXCEPT ![WorkerOf(r)] = IF queues_work(r, -1) THEN "ua" ELSE @]
    /\ UNCHANGED <<allocated, registered, gkey, refcount, next, lock, pagevec,
                   nr_pages, rvars, s_owned, io_head, lstgrp, nr_bios, bio, bio_open,
                   force_submit, last_index, u_grp, grants, passes, todo>>
    /\ UNCHANGED avars

\* io_wait_event(io[1].u.wait, !atomic_read(&io[1].pending_bios)), then the
\* synchronous z_erofs_vle_unzip_all(sb, &io[1], pagepool)
WaitIO(r) ==
    /\ pc[r] = "wait"
    /\ pending_bios[r] = 0
    /\ pc' = [pc EXCEPT ![r] = "ua"]
    /\ u_owned' = [u_owned EXCEPT ![r] = io_head[r][2]]
    /\ u_list' = [u_list EXCEPT ![r] = 2]
    /\ UNCHANGED <<gvars, rvars, svars, u_grp, hvars>>
    /\ UNCHANGED avars

\* ---- z_erofs_vle_unzip_all -----------------------------------------------
\* where a thread goes when its list is exhausted
AfterList(t) ==
    IF t \in Workers THEN "w_done"
    ELSE IF u_list[t] = 1 /\ force_fg[t] THEN "wait" ELSE "out"

\* while (owned != TAIL_CLOSED) { grp = owned; owned = READ_ONCE(grp->next);
\* z_erofs_vle_unzip(sb, grp, page_pool); }
unzip_all_next(g) == next[g]

unzip_all_loop(t) ==
    IF u_owned[t] = TAIL_CLOSED
    THEN /\ pc' = [pc EXCEPT ![t] = AfterList(t)]
         /\ u_grp' = [u_grp EXCEPT ![t] = 0]
         /\ UNCHANGED <<u_owned, passes, todo>>
    ELSE /\ u_owned[t] \in Groups
         /\ u_grp' = [u_grp EXCEPT ![t] = u_owned[t]]
         /\ u_owned' = [u_owned EXCEPT ![t] = unzip_all_next(u_owned[t])]
         /\ passes' = [passes EXCEPT ![u_owned[t]] = @ + 1]
         /\ todo' = [todo EXCEPT ![ReaderOf(t)] = @ \ {u_owned[t]}]
         /\ pc' = [pc EXCEPT ![t] = "uz_lock"]

\* the first test of the loop, on io->head
UnzipAllNext(t) ==
    /\ pc[t] = "ua"
    /\ unzip_all_loop(t)
    /\ UNCHANGED <<gvars, rvars, svars, u_list, grants, trig>>
    /\ UNCHANGED avars

\* ---- z_erofs_vle_unzip ---------------------------------------------------
\* page parts of reader r that the pass ends: the entries of the page vector
\* and an in-place file page in the compressed slot
RECURSIVE CountOwner(_, _)
CountOwner(vec, r) ==
    IF vec = <<>> THEN 0
    ELSE (IF Head(vec)[1] = r THEN 1 ELSE 0) + CountOwner(Tail(vec), r)

unzip_ended(g, r) ==
    CountOwner(pagevec[g], r)
        + (IF slot[g].kind = "FILE" /\ slot[g].owner = r THEN 1 ELSE 0)

\* a pass that clears every slot
unzip_slot_all(sl) == NullSlot

\* a managed cache page stays in its slot; every other slot is cleared
unzip_slot(sl) == IF sl.kind = "CACHED" THEN sl ELSE NullSlot

\* a pass that resets next without having drained the page vector
unzip_body_keepvec(g) ==
    /\ online' = [r \in Readers |-> online[r] - unzip_ended(g, r)]
    /\ slot' = [slot EXCEPT ![g] = unzip_slot(@)]
    /\ UNCHANGED <<pagevec, nr_pages>>
    /\ next' = [next EXCEPT ![g] = NIL]
    /\ grants' = [grants EXCEPT ![g] = <<>>]
    /\ passes' = [passes EXCEPT ![g] = 0]

\* the pass under the mutex, up to WRITE_ONCE(grp->next, NIL)
unzip_body(g) ==
    /\ online' = [r \in Readers |-> online[r] - unzip_ended(g, r)]
    /\ slot' = [slot EXCEPT ![g] = unzip_slot(@)]
    /\ pagevec' = [pagevec EXCEPT ![g] = <<>>]
    /\ nr_pages' = [nr_pages EXCEPT ![g] = 0]
    /\ next' = [next EXCEPT ![g] = NIL]
    /\ grants' = [grants EXCEPT ![g] = <<>>]
    /\ passes' = [passes EXCEPT ![g] = 0]

\* BUG_ON(!READ_ONCE(work->nr_pages)); mutex_lock(&work->lock); the pass
UnzipBody(t) ==
    /\ pc[t] = "uz_lock"
    /\ u_grp[t] \in Groups
    /\ nr_pages[u_grp[t]] # 0
    /\ lock[u_grp[t]] = 0
    /\ lock' = [lock EXCEPT ![u_grp[t]] = t]
    /\ unzip_body(u_grp[t])
    /\ pc' = [pc EXCEPT ![t] = "uz_unlock"]
    /\ UNCHANGED <<allocated, registered, gkey, refcount, readpage, force_fg,
                   owned_head, hosted, role, b_grp, deficit, idx, visits, err,
                   svars, uvars, todo, trig>>
    /\ UNCHANGED avars

\* a pass that goes on to drop its reference with the mutex still taken
work_unlock_kept(t) == UNCHANGED lock

\* mutex_unlock(&work->lock) at the end of z_erofs_vle_unzip
work_unlock(t) == lock' = [lock EXCEPT ![u_grp[t]] = 0]

\* all work locks SHOULD be released right now
UnzipUnlock(t) ==
    /\ pc[t] = "uz_unlock"
    /\ work_unlock(t)
    /\ pc' = [pc EXCEPT ![t] = "uz_put"]
    /\ UNCHANGED <<allocated, registered, gkey, refcount, next, pagevec, nr_pages,
                   slot, rvars, svars, uvars, hvars>>
    /\ UNCHANGED avars

\* z_erofs_vle_work_release(work): erofs_workgroup_put; z_erofs_vle_unzip
\* returns into the loop of z_erofs_vle_unzip_all
UnzipPut(t) ==
    /\ pc[t] = "uz_put"
    /\ refcount' = [refcount EXCEPT ![u_grp[t]] = @ - 1]
    /\ unzip_all_loop(t)
    /\ UNCHANGED <<allocated, registered, gkey, next, lock, pagevec, nr_pages, slot,
                   rvars, svars, u_list, grants, trig>>
    /\ UNCHANGED avars

Next ==
    \/ \E r \in Readers, k \in Keys : MapBlocks(r, k)
    \/ \E r \in Readers : MapError(r)
    \/ \E r \in Readers : Lookup(r)
    \/ \E r \in Readers : LockWork(r)
    \/ \E r \in Readers : ClaimRead(r)
    \/ \E r \in Readers : ClaimCasNil(r)
    \/ \E r \in Readers : ClaimCasTail(r)
    \/ \E r \in Readers : RegisterNoMem(r)
    \/ \E r \in Readers : Register(r)
    \/ \E r \in Readers : ScanCachePages(r)
    \/ \E r \in Readers, type \in BuildTypes, i \in 0..MaxIndex : AddPage(r, type, i)
    \/ \E r \in Readers : IterEnd(r)
    \/ \E r \in Readers : SubmitEnter(r)
    \/ \E r \in Readers : SubmitWalk(r)
    \/ \E r \in Readers : SubmitEnd(r)
    \/ \E r \in Readers : Kickoff(r)
    \/ \E r \in Readers : \E b \in inflight[r], ioerr \in BOOLEAN : ReadEndIO(r, b, ioerr)
    \/ \E r \in Readers : WaitIO(r)
    \/ \E t \in Threads : UnzipAllNext(t)
    \/ \E t \in Threads : UnzipBody(t)
    \/ \E t \in Threads : UnzipUnlock(t)
    \/ \E t \in Threads : UnzipPut(t)

Spec == Init /\ [][Next]_vars

\* ==== FreeSpec: the lifetime of a workgroup object ========================
\* Creators find or register the workgroup of one key, hold a reference and
\* put it; the shrinker releases the workgroup the registry holds; the page
\* cache asks to release the managed cache page of the workgroup.

\* rcu_read_unlock: no grace period waits for this section any longer
rcu_read_unlock(t) ==
    /\ frcu' = [frcu EXCEPT ![t] = FALSE]
    /\ wg_wait' = [o \in WgObjs |-> wg_wait[o] \ {t}]

\* kmem_cache_free(z_erofs_workgroup_cachep, grp)
kmem_cache_free(o) ==
    /\ wg_live' = [wg_live EXCEPT ![o] = FALSE]
    /\ dfree' = (dfree \/ ~wg_live[o])

\* a release that frees the memory at once
free_rcu_now(o) ==
    /\ kmem_cache_free(o)
    /\ UNCHANGED <<wg_cb, wg_wait>>

\* erofs_workgroup_free_rcu: call_rcu(&work->rcu, z_erofs_rcu_callback); the
\* grace period waits for the read-side sections that are open now
erofs_workgroup_free_rcu(o) ==
    /\ wg_cb' = [wg_cb EXCEPT ![o] = @ + 1]
    /\ wg_wait' = [wg_wait EXCEPT ![o] = {t \in FThreads : frcu[t]}]
    /\ UNCHANGED <<wg_live, dfree>>

\* erofs_workgroup_put: atomic_dec_return; the free at zero
erofs_workgroup_put(o) ==
    /\ wg_ref' = [wg_ref EXCEPT ![o] = @ - 1]
    /\ IF wg_ref[o] = 1
       THEN erofs_workgroup_free_rcu(o)
       ELSE UNCHANGED <<wg_live, dfree, wg_cb, wg_wait>>

\* z_erofs_rcu_callback, once the grace period has elapsed
RcuCallback(o) ==
    /\ wg_cb[o] > 0
    /\ wg_wait[o] = {}
    /\ wg_cb' = [wg_cb EXCEPT ![o] = @ - 1]
    /\ kmem_cache_free(o)
    /\ UNCHANGED <<wg_ref, wg_slot, wg_mutex, wg_wait, workstn, pg_private, pg_lock,
                   fpc, fptr, frcu>>
    /\ UNCHANGED <<fret, pg_count, pg_frame>>
    /\ UNCHANGED <<vars, pvars, mvars, xvars>>

\* erofs_find_workgroup: rcu_read_lock and the lookup in the tree
FindLookup(t) ==
    /\ fpc[t] = "idle"
    /\ IF workstn = 0
       THEN /\ fpc' = [fpc EXCEPT ![t] = "alloc"]
            /\ UNCHANGED <<fptr, frcu>>
       ELSE /\ fpc' = [fpc EXCEPT ![t] = "get"]
            /\ fptr' = [fptr EXCEPT ![t] = workstn]
            /\ frcu' = [frcu EXCEPT ![t] = TRUE]
    /\ UNCHANGED <<wg_live, wg_ref, wg_slot, wg_mutex, wg_cb, wg_wait, workstn,
                   pg_private, pg_lock, dfree>>
    /\ UNCHANGED <<fret, pg_count, pg_frame>>
    /\ UNCHANGED <<vars, pvars, mvars, xvars>>

\* erofs_workgroup_get inside the read-side section: waits while the
\* workgroup is frozen, fails on a count that is not positive, and
\* rcu_read_unlock
FindGet(t) ==
    /\ fpc[t] = "get"
    /\ wg_ref[fptr[t]] # EROFS_LOCKED_MAGIC
    /\ IF wg_ref[fptr[t]] <= 0
       THEN /\ fpc' = [fpc EXCEPT ![t] = "idle"]
            /\ fptr' = [fptr EXCEPT ![t] = 0]
            /\ UNCHANGED wg_ref
       ELSE /\ fpc' = [fpc EXCEPT ![t] = "lock"]
            /\ wg_ref' = [wg_ref EXCEPT ![fptr[t]] = @ + 1]
            /\ UNCHANGED fptr
    /\ rcu_read_unlock(t)
    /\ UNCHANGED <<wg_live, wg_slot, wg_mutex, wg_cb, workstn, pg_private, pg_lock,
                   dfree>>
    /\ UNCHANGED <<fret, pg_count, pg_frame>>
    /\ UNCHANGED <<vars, pvars, mvars, xvars>>

\* z_erofs_vle_work_lookup: mutex_lock(&work->lock)
WorkLock(t) ==
    /\ fpc[t] = "lock"
    /\ wg_mutex[fptr[t]] = 0
    /\ wg_mutex' = [wg_mutex EXCEPT ![fptr[t]] = t]
    /\ fpc' = [fpc EXCEPT ![t] = "held"]
    /\ UNCHANGED <<wg_live, wg_ref, wg_slot, wg_cb, wg_wait, workstn, pg_private,
                   pg_lock, fptr, frcu, dfree>>
    /\ UNCHANGED <<fret, pg_count, pg_frame>>
    /\ UNCHANGED <<vars, pvars, mvars, xvars>>

\* z_erofs_vle_work_register: kmem_cache_zalloc, atomic_set(refcount, 1),
\* mutex_trylock; -ENOMEM when no object is left
WorkAlloc(t) ==
    /\ fpc[t] = "alloc"
    /\ IF \E o \in WgObjs : ~wg_live[o]
       THEN \E o \in WgObjs :
              /\ ~wg_live[o]
              /\ wg_live' = [wg_live EXCEPT ![o] = TRUE]
              /\ wg_ref' = [wg_ref EXCEPT ![o] = 1]
              /\ wg_slot' = [wg_slot EXCEPT ![o] = FALSE]
              /\ wg_mutex' = [wg_mutex EXCEPT ![o] = t]
              /\ fptr' = [fptr EXCEPT ![t] = o]
              /\ fpc' = [fpc EXCEPT ![t] = "register"]
       ELSE /\ fpc' = [fpc EXCEPT ![t] = "idle"]
            /\ UNCHANGED <<wg_live, wg_ref, wg_slot, wg_mutex, fptr>>
    /\ UNCHANGED <<wg_cb, wg_wait, workstn, pg_private, pg_lock, frcu, dfree>>
    /\ UNCHANGED <<fret, pg_count, pg_frame>>
    /\ UNCHANGED <<vars, pvars, mvars, xvars>>

\* erofs_register_workgroup and its error path: mutex_unlock and
\* kmem_cache_free of the object that was never visible
WorkRegister(t) ==
    /\ fpc[t] = "register"
    /\ IF workstn = 0
       THEN /\ workstn' = fptr[t]
            /\ wg_ref' = [wg_ref EXCEPT ![fptr[t]] = @ + 1]
            /\ fpc' = [fpc EXCEPT ![t] = "held"]
            /\ UNCHANGED <<wg_live, wg_mutex, fptr, dfree>>
       ELSE /\ wg_mutex' = [wg_mutex EXCEPT ![fptr[t]] = 0]
            /\ kmem_cache_free(fptr[t])
            /\ fptr' = [fptr EXCEPT ![t] = 0]
            /\ fpc' = [fpc EXCEPT ![t] = "idle"]
            /\ UNCHANGED <<workstn, wg_ref>>
    /\ UNCHANGED <<wg_slot, wg_cb, wg_wait, pg_private, pg_lock, frcu>>
    /\ UNCHANGED <<fret, pg_count, pg_frame>>
    /\ UNCHANGED <<vars, pvars, mvars, xvars>>

\* z_erofs_vle_work_iter_end: mutex_unlock(&work->lock)
WorkUnlock(t) ==
    /\ fpc[t] = "held"
    /\ wg_mutex' = [wg_mutex EXCEPT ![fptr[t]] = 0]
    /\ fpc' = [fpc EXCEPT ![t] = "ref"]
    /\ UNCHANGED <<wg_live, wg_ref, wg_slot, wg_cb, wg_wait, workstn, pg_private,
                   pg_lock, fptr, frcu, dfree>>
    /\ UNCHANGED <<fret, pg_count, pg_frame>>
    /\ UNCHANGED <<vars, pvars, mvars, xvars>>

\* z_erofs_vle_grab_page_for_submission under the page lock: the managed
\* cache page goes into the slot, with the reference find_get_page took, and
\* is tagged with the workgroup
AttachPage(t) ==
    /\ fpc[t] = "ref"
    /\ pg_lock = 0
    /\ pg_private = 0
    /\ ~wg_slot[fptr[t]]
    /\ wg_slot' = [wg_slot EXCEPT ![fptr[t]] = TRUE]
    /\ pg_private' = fptr[t]
    /\ pg_count' = pg_count + 1
    /\ UNCHANGED <<wg_live, wg_ref, wg_mutex, wg_cb, wg_wait, workstn, pg_lock, fpc,
                   fptr, frcu, dfree>>
    /\ UNCHANGED <<fret, pg_frame>>
    /\ UNCHANGED <<vars, pvars, mvars, xvars>>

\* z_erofs_vle_work_release: erofs_workgroup_put by a reference holder
WorkPut(t) ==
    /\ fpc[t] = "ref"
    /\ erofs_workgroup_put(fptr[t])
    /\ fptr' = [fptr EXCEPT ![t] = 0]
    /\ fpc' = [fpc EXCEPT ![t] = "idle"]
    /\ UNCHANGED <<wg_slot, wg_mutex, workstn, pg_private, pg_lock, frcu>>
    /\ UNCHANGED <<fret, pg_count, pg_frame>>
    /\ UNCHANGED <<vars, pvars, mvars, xvars>>

\* the shrinker takes the workgroup of the registry:
\* erofs_workgroup_try_to_freeze(grp, 1)
ShrinkFreeze ==
    /\ fpc[Shrinker] = "idle"
    /\ workstn # 0
    /\ wg_ref[workstn] = 1
    /\ wg_ref' = [wg_ref EXCEPT ![workstn] = EROFS_LOCKED_MAGIC]
    /\ fptr' = [fptr EXCEPT ![Shrinker] = workstn]
    /\ fpc' = [fpc EXCEPT ![Shrinker] = "s_pages"]
    /\ UNCHANGED <<wg_live, wg_slot, wg_mutex, wg_cb, wg_wait, workstn, pg_private,
                   pg_lock, frcu, dfree>>
    /\ UNCHANGED <<fret, pg_count, pg_frame>>
    /\ UNCHANGED <<vars, pvars, mvars, xvars>>

\* the return of erofs_try_to_free_all_cached_pages with -EBUSY; the caller
\* unfreezes the workgroup (erofs_workgroup_unfreeze(grp, 1))
free_all_busy(o) ==
    /\ fret' = [fret EXCEPT ![Shrinker] = "EBUSY"]
    /\ wg_ref' = [wg_ref EXCEPT ![o] = 1]
    /\ fptr' = [fptr EXCEPT ![Shrinker] = 0]
    /\ fpc' = [fpc EXCEPT ![Shrinker] = "idle"]

\* erofs_try_to_free_all_cached_pages: mutex_trylock(&primary_work->lock),
\* -EBUSY when it is taken
ShrinkPages ==
    /\ fpc[Shrinker] = "s_pages"
    /\ IF wg_mutex[fptr[Shrinker]] # 0
       THEN /\ free_all_busy(fptr[Shrinker])
            /\ UNCHANGED wg_mutex
       ELSE /\ wg_mutex' = [wg_mutex EXCEPT ![fptr[Shrinker]] = Shrinker]
            /\ fpc' = [fpc EXCEPT ![Shrinker] = "s_slot"]
            /\ UNCHANGED <<wg_ref, fptr, fret>>
    /\ UNCHANGED <<wg_live, wg_slot, wg_cb, wg_wait, workstn, pg_private, pg_lock,
                   frcu, dfree>>
    /\ UNCHANGED <<pg_count, pg_frame>>
    /\ UNCHANGED <<vars, pvars, mvars, xvars>>

free_all_mutex_kept(o) == UNCHANGED wg_mutex

\* mutex_unlock(&primary_work->lock) before the return
free_all_mutex_unlock(o) == wg_mutex' = [wg_mutex EXCEPT ![o] = 0]

\* the loop over compressed_pages: an empty slot is skipped; trylock_page
\* fails when the page is locked: mutex_unlock and -EBUSY; else the slot is
\* set to NULL, the tag of the page is cleared, unlock_page and put_page
ShrinkSlot ==
    /\ fpc[Shrinker] = "s_slot"
    /\ LET o == fptr[Shrinker]
       IN  IF ~wg_slot[o]
           THEN /\ fpc' = [fpc EXCEPT ![Shrinker] = "s_unlock"]
                /\ UNCHANGED <<wg_ref, wg_slot, wg_mutex, pg_private, pg_count, fptr,
                               fret>>
           ELSE IF pg_lock # 0
           THEN /\ free_all_mutex_unlock(o)
                /\ free_all_busy(o)
                /\ UNCHANGED <<wg_slot, pg_private, pg_count>>
           ELSE /\ wg_slot' = [wg_slot EXCEPT ![o] = FALSE]
                /\ pg_private' = 0
                /\ pg_count' = pg_count - 1
                /\ fpc' = [fpc EXCEPT ![Shrinker] = "s_unlock"]
                /\ UNCHANGED <<wg_ref, wg_mutex, fptr, fret>>
    /\ UNCHANGED <<wg_live, wg_cb, wg_wait, workstn, pg_lock, frcu, dfree, pg_frame>>
    /\ UNCHANGED <<vars, pvars, mvars, xvars>>

\* after the loop: mutex_unlock and return 0
ShrinkUnlock ==
    /\ fpc[Shrinker] = "s_unlock"
    /\ free_all_mutex_unlock(fptr[Shrinker])
    /\ fret' = [fret EXCEPT ![Shrinker] = "0"]
    /\ fpc' = [fpc EXCEPT ![Shrinker] = "s_delete"]
    /\ UNCHANGED <<wg_live, wg_ref, wg_slot, wg_cb, wg_wait, workstn, pg_private,
                   pg_lock, fptr, frcu, dfree, pg_count, pg_frame>>
    /\ UNCHANGED <<vars, pvars, mvars, xvars>>

\* the frozen workgroup leaves the tree
ShrinkDelete ==
    /\ fpc[Shrinker] = "s_delete"
    /\ workstn' = 0
    /\ fpc' = [fpc EXCEPT ![Shrinker] = "s_put"]
    /\ UNCHANGED <<wg_live, wg_ref, wg_slot, wg_mutex, wg_cb, wg_wait, pg_private,
                   pg_lock, fptr, frcu, dfree>>
    /\ UNCHANGED <<fret, pg_count, pg_frame>>
    /\ UNCHANGED <<vars, pvars, mvars, xvars>>

\* the reference of the registry, the last one, is released: the count goes
\* from frozen (at 1) to zero and the deferred reclamation is triggered
ShrinkPut ==
    /\ fpc[Shrinker] = "s_put"
    /\ wg_ref' = [wg_ref EXCEPT ![fptr[Shrinker]] = 0]
    /\ erofs_workgroup_free_rcu(fptr[Shrinker])
    /\ fptr' = [fptr EXCEPT ![Shrinker] = 0]
    /\ fpc' = [fpc EXCEPT ![Shrinker] = "idle"]
    /\ UNCHANGED <<wg_slot, wg_mutex, workstn, pg_private, pg_lock, frcu>>
    /\ UNCHANGED <<fret, pg_count, pg_frame>>
    /\ UNCHANGED <<vars, pvars, mvars, xvars>>

\* the page cache calls erofs_try_to_free_cached_page on the locked,
\* PagePrivate page: rcu_read_lock(); grp = page_private(page)
ReleaseEnter ==
    /\ fpc[Releaser] = "idle"
    /\ pg_lock = 0
    /\ pg_private # 0
    /\ pg_lock' = Releaser
    /\ frcu' = [frcu EXCEPT ![Releaser] = TRUE]
    /\ fptr' = [fptr EXCEPT ![Releaser] = pg_private]
    /\ fpc' = [fpc EXCEPT ![Releaser] = "r_freeze"]
    /\ UNCHANGED <<wg_live, wg_ref, wg_slot, wg_mutex, wg_cb, wg_wait, workstn,
                   pg_private, dfree>>
    /\ UNCHANGED <<fret, pg_count, pg_frame>>
    /\ UNCHANGED <<vars, pvars, mvars, xvars>>

free_cached_page_slot_always(held, frozen) == FALSE

\* the slot of the page after erofs_try_to_free_cached_page: set to NULL only
\* inside the frozen section
free_cached_page_slot(held, frozen) == IF frozen THEN FALSE ELSE held

\* erofs_workgroup_try_to_freeze(&grp->obj, 1); busy: rcu_read_unlock and
\* return 0
ReleaseFreeze ==
    /\ fpc[Releaser] = "r_freeze"
    /\ IF wg_ref[fptr[Releaser]] = 1
       THEN /\ wg_ref' = [wg_ref EXCEPT ![fptr[Releaser]] = EROFS_LOCKED_MAGIC]
            /\ fpc' = [fpc EXCEPT ![Releaser] = "r_clear"]
            /\ UNCHANGED <<fptr, frcu, wg_wait, pg_lock>>
       ELSE /\ rcu_read_unlock(Releaser)
            /\ fptr' = [fptr EXCEPT ![Releaser] = 0]
            /\ pg_lock' = 0
            /\ fpc' = [fpc EXCEPT ![Releaser] = "idle"]
            /\ UNCHANGED wg_ref
    /\ wg_slot' = [wg_slot EXCEPT
                      ![fptr[Releaser]] = free_cached_page_slot(@, FALSE)]
    /\ fret' = [fret EXCEPT ![Releaser] =
                   IF wg_ref[fptr[Releaser]] = 1 THEN @ ELSE "0"]
    /\ UNCHANGED <<wg_live, wg_mutex, wg_cb, workstn, pg_private, dfree>>
    /\ UNCHANGED <<pg_count, pg_frame>>
    /\ UNCHANGED <<vars, pvars, mvars, xvars>>

\* the slot that holds the page is cleared, erofs_workgroup_unfreeze(grp, 1),
\* rcu_read_unlock; on ret == 1 ClearPagePrivate and put_page
ReleaseClear ==
    /\ fpc[Releaser] = "r_clear"
    /\ wg_slot' = [wg_slot EXCEPT
                      ![fptr[Releaser]] = free_cached_page_slot(@, TRUE)]
    /\ wg_ref' = [wg_ref EXCEPT ![fptr[Releaser]] = 1]
    /\ rcu_read_unlock(Releaser)
    /\ pg_private' = IF wg_slot[fptr[Releaser]] THEN 0 ELSE pg_private
    /\ pg_count' = IF wg_slot[fptr[Releaser]] THEN pg_count - 1 ELSE pg_count
    /\ fret' = [fret EXCEPT ![Releaser] =
                   IF wg_slot[fptr[Releaser]] THEN "1" ELSE "0"]
    /\ pg_lock' = 0
    /\ fptr' = [fptr EXCEPT ![Releaser] = 0]
    /\ fpc' = [fpc EXCEPT ![Releaser] = "idle"]
    /\ UNCHANGED <<wg_live, wg_mutex, wg_cb, workstn, dfree, pg_frame>>
    /\ UNCHANGED <<vars, pvars, mvars, xvars>>

\* ---- erofs_migrate_cached_page ---------------------------------------------
\* the caller holds the lock of the page; a page without PagePrivate is moved
\* by migrate_page; else grp = page_private(page)
MigrateEnter ==
    /\ fpc[Migrator] = "idle"
    /\ pg_lock = 0
    /\ IF pg_private = 0
       THEN /\ pg_frame' = 1 - pg_frame
            /\ fret' = [fret EXCEPT ![Migrator] = "SUCCESS"]
            /\ UNCHANGED <<pg_lock, fptr, fpc>>
       ELSE /\ pg_lock' = Migrator
            /\ fptr' = [fptr EXCEPT ![Migrator] = pg_private]
            /\ fpc' = [fpc EXCEPT ![Migrator] = "m_lock"]
            /\ UNCHANGED <<pg_frame, fret>>
    /\ UNCHANGED <<wg_live, wg_ref, wg_slot, wg_mutex, wg_cb, wg_wait, workstn,
                   pg_private, frcu, dfree, pg_count>>
    /\ UNCHANGED <<vars, pvars, mvars, xvars>>

\* the return of erofs_migrate_cached_page with an error; the caller unlocks
\* the page
migrate_fails(rc) ==
    /\ fret' = [fret EXCEPT ![Migrator] = rc]
    /\ pg_lock' = 0
    /\ fptr' = [fptr EXCEPT ![Migrator] = 0]
    /\ fpc' = [fpc EXCEPT ![Migrator] = "idle"]

\* mutex_trylock(&primary_work->lock); when it is taken, -EAGAIN under
\* MIGRATE_ASYNC, else mutex_lock waits
MigrateLock ==
    /\ fpc[Migrator] = "m_lock"
    /\ IF wg_mutex[fptr[Migrator]] = 0
       THEN /\ wg_mutex' = [wg_mutex EXCEPT ![fptr[Migrator]] = Migrator]
            /\ fpc' = [fpc EXCEPT ![Migrator] = "m_check"]
            /\ UNCHANGED <<fret, pg_lock, fptr>>
       ELSE /\ migrate_fails("EAGAIN")
            /\ UNCHANGED wg_mutex
    /\ UNCHANGED <<wg_live, wg_ref, wg_slot, wg_cb, wg_wait, workstn, pg_private,
                   frcu, dfree, pg_count, pg_frame>>
    /\ UNCHANGED <<vars, pvars, mvars, xvars>>

migrate_frozen_unseen(ref) == FALSE

\* "drop this migration attempt if freezed to 1 (reclaiming)"
migrate_frozen(ref) == ref = EROFS_LOCKED_MAGIC

\* the test of the frozen count: mutex_unlock and -EBUSY; else
\* migrate_page_move_mapping, which puts the new page into the mapping or
\* fails (mutex_unlock, return rc)
MigrateCheck ==
    /\ fpc[Migrator] = "m_check"
    /\ LET o == fptr[Migrator]
       IN  IF migrate_frozen(wg_ref[o])
           THEN /\ wg_mutex' = [wg_mutex EXCEPT ![o] = 0]
                /\ migrate_fails("EBUSY")
                /\ UNCHANGED pg_frame
           ELSE \E moved \in BOOLEAN :
                  IF moved
                  THEN /\ pg_frame' = 1 - pg_frame
                       /\ fpc' = [fpc EXCEPT ![Migrator] = "m_move"]
                       /\ UNCHANGED <<wg_mutex, fret, pg_lock, fptr>>
                  ELSE /\ wg_mutex' = [wg_mutex EXCEPT ![o] = 0]
                       /\ migrate_fails("EAGAIN")
                       /\ UNCHANGED pg_frame
    /\ UNCHANGED <<wg_live, wg_ref, wg_slot, wg_cb, wg_wait, workstn, pg_private,
                   frcu, dfree, pg_count>>
    /\ UNCHANGED <<vars, pvars, mvars, xvars>>

\* cmpxchg(&grp->compressed_pages[i], page, newpage): the slot that held the
\* page holds the new page, which is tagged and referenced (get_page) while
\* the old page loses tag and reference (put_page); when no slot held the
\* page only the tag of the old page is cleared; mutex_unlock, success
MigrateMove ==
    /\ fpc[Migrator] = "m_move"
    /\ LET o == fptr[Migrator]
       IN  /\ pg_private' = IF wg_slot[o] THEN o ELSE 0
           /\ wg_mutex' = [wg_mutex EXCEPT ![o] = 0]
    /\ fret' = [fret EXCEPT ![Migrator] = "SUCCESS"]
    /\ pg_lock' = 0
    /\ fptr' = [fptr EXCEPT ![Migrator] = 0]
    /\ fpc' = [fpc EXCEPT ![Migrator] = "idle"]
    /\ UNCHANGED <<wg_live, wg_ref, wg_slot, wg_cb, wg_wait, workstn, frcu, dfree,
                   pg_count, pg_frame>>
    /\ UNCHANGED <<vars, pvars, mvars, xvars>>

FreeNext ==
    \/ \E t \in Readers : FindLookup(t)
    \/ \E t \in Readers : FindGet(t)
    \/ \E t \in Readers : WorkLock(t)
    \/ \E t \in Readers : WorkAlloc(t)
    \/ \E t \in Readers : WorkRegister(t)
    \/ \E t \in Readers : WorkUnlock(t)
    \/ \E t \in Readers : AttachPage(t)
    \/ \E t \in Readers : WorkPut(t)
    \/ ShrinkFreeze
    \/ ShrinkPages
    \/ ShrinkSlot
    \/ ShrinkUnlock
    \/ ShrinkDelete
    \/ ShrinkPut
    \/ ReleaseEnter
    \/ ReleaseFreeze
    \/ ReleaseClear
    \/ MigrateEnter
    \/ MigrateLock
    \/ MigrateCheck
    \/ MigrateMove
    \/ \E o \in WgObjs : RcuCallback(o)

FreeInit ==
    /\ FreeStart
    /\ MainOff /\ PageOff /\ MapOff /\ KickOff /\ SlotOff /\ SwapOff

FreeSpec == FreeInit /\ [][FreeNext]_fvars

\* ==== PageSpec: one read operation builds, reads and decompresses ==========
\* z_erofs_do_read_page over the pages of a file from the last page down,
\* then the reads of the compressed pages and z_erofs_vle_unzip per work.

\* z_erofs_pagevec_ctor_enqueue: an entry that is not EXCLUSIVE is refused
\* when it would take the last free entry and no page is reserved as the
\* next block of the vector
vec_refuses(w, type) == ~wk_next[w] /\ type # "EXCLUSIVE" /\ wk_room[w] = 1

\* the entry is stored; a block that is full is left for the reserved one,
\* and an EXCLUSIVE page becomes the reserved next block when there is none
vec_enqueue(w, q, type) ==
    LET down == wk_room[w] = 0
        nx == IF down THEN FALSE ELSE wk_next[w]
    IN  /\ wk_vec' = [wk_vec EXCEPT ![w] = Append(@, <<q, type>>)]
        /\ wk_room' = [wk_room EXCEPT ![w] = (IF down THEN VecRoom ELSE @) - 1]
        /\ wk_next' = [wk_next EXCEPT ![w] = nx \/ type = "EXCLUSIVE"]

\* an add_page that gives every page type priority for the compressed slot
add_page_anytype(w, q, type) ==
    IF fe_role >= Z_EROFS_VLE_WORK_PRIMARY /\ fe_deficit > 0
       /\ wk_slot[w].kind = "NULL"
    THEN /\ wk_slot' = [wk_slot EXCEPT ![w] = [kind |-> "FILE", page |-> q]]
         /\ fe_deficit' = 0
         /\ fe_ret' = "ok"
         /\ UNCHANGED <<wk_vec, wk_room, wk_next>>
    ELSE /\ fe_deficit' = fe_deficit
         /\ UNCHANGED wk_slot
         /\ IF vec_refuses(w, type)
            THEN fe_ret' = "EAGAIN" /\ UNCHANGED <<wk_vec, wk_room, wk_next>>
            ELSE fe_ret' = "ok" /\ vec_enqueue(w, q, type)

\* z_erofs_vle_work_add_page: try_to_reuse_as_compressed_page under a role
\* >= PRIMARY for an EXCLUSIVE page (it uses up the deficit, and wins the
\* slot by cmpxchg from NULL), or else z_erofs_pagevec_ctor_enqueue
add_page(w, q, type) ==
    LET tried == /\ fe_role >= Z_EROFS_VLE_WORK_PRIMARY
                 /\ type = "EXCLUSIVE"
                 /\ fe_deficit > 0
    IN  /\ fe_deficit' = IF tried THEN 0 ELSE fe_deficit
        /\ IF tried /\ wk_slot[w].kind = "NULL"
           THEN /\ wk_slot' = [wk_slot EXCEPT ![w] =
                      [kind |-> IF q = StagingPage THEN "STAGING" ELSE "FILE",
                       page |-> q]]
                /\ fe_ret' = "ok"
                /\ UNCHANGED <<wk_vec, wk_room, wk_next>>
           ELSE /\ UNCHANGED wk_slot
                /\ IF vec_refuses(w, type)
                   THEN fe_ret' = "EAGAIN" /\ UNCHANGED <<wk_vec, wk_room, wk_next>>
                   ELSE fe_ret' = "ok" /\ vec_enqueue(w, q, type)

\* z_erofs_onlinepage_fixup: the index of the page, kept when one is
\* recorded and the new one is zero
onlinepage_fixup(id, index) == IF id # 0 /\ index = 0 THEN id ELSE index

\* entry of z_erofs_do_read_page: tight, spiltted = 0, end = PAGE_SIZE
DoReadPage ==
    /\ fe_pc = "page"
    /\ fe_page >= 0
    /\ fe_tight' = (fe_role >= Z_EROFS_VLE_WORK_PRIMARY_TERMINAL)
    /\ fe_spiltted' = 0
    /\ fe_end' = PageUnits
    /\ fe_pc' = "part"
    /\ UNCHANGED <<img_bnd, img_pa, fe_page, fe_cur, fe_type, fe_map, fe_work,
                   fe_role, fe_deficit, fe_ret, wk_vec, wk_room, wk_next, wk_nr,
                   wk_slot, wk_io, wk_res, wk_decomp, pg_id, pg_err>>
    /\ UNCHANGED <<vars, fvars, mvars, xvars>>

\* a tight that forgets the role of the work that was begun
tight_after_begin_kept(tight, rl) == tight

\* tight &= builder_is_weak_followed(builder) after the begin and the scan
tight_after_begin(tight, rl) == tight /\ rl >= Z_EROFS_VLE_WORK_PRIMARY_TERMINAL

\* repeat: the part that ends at end.  Outside of the current map:
\* z_erofs_vle_work_iter_end, erofs_map_blocks_iter, iter_begin (any role a
\* claim can give) and z_erofs_vle_scan_cachepages; then hitted: cur, the
\* page type and the update of tight
ReadPart(rl, found) ==
    /\ fe_pc = "part"
    /\ LET off == fe_page * PageUnits
           pos == off + fe_end - 1
           lucky == pos >= fe_map.m_la /\ pos < fe_map.m_la + fe_map.m_llen
           la == IF lucky THEN fe_map.m_la ELSE ExtentStart(img_bnd, pos)
           w == IF lucky THEN fe_work ELSE img_pa[la]
           cached == rl >= Z_EROFS_VLE_WORK_PRIMARY_TERMINAL
                       /\ wk_slot[w].kind = "NULL" /\ found
           standalone == rl >= Z_EROFS_VLE_WORK_PRIMARY_TERMINAL
                           /\ (wk_slot[w].kind # "NULL" \/ found)
           nrole == IF lucky THEN fe_role
                    ELSE IF standalone THEN Z_EROFS_VLE_WORK_PRIMARY ELSE rl
           t1 == IF lucky THEN fe_tight ELSE tight_after_begin(fe_tight, nrole)
           cur == IF la > off THEN la - off ELSE 0
       IN  /\ lucky => rl = fe_role /\ ~found
           /\ fe_map' = [m_la |-> la,
                         m_llen |-> IF lucky THEN fe_map.m_llen ELSE pos - la + 1]
           /\ fe_work' = w
           /\ fe_role' = nrole
           /\ fe_deficit' = IF lucky THEN fe_deficit ELSE ClusterPages
           /\ wk_slot' = IF ~lucky /\ cached
                         THEN [wk_slot EXCEPT ![w] = [kind |-> "CACHED", page |-> StagingPage]]
                         ELSE wk_slot
           /\ fe_cur' = cur
           /\ fe_type' = IF cur # 0 THEN "HEAD"
                         ELSE IF fe_spiltted = 0 THEN "EXCLUSIVE"
                         ELSE IF t1 THEN "EXCLUSIVE" ELSE "TAIL_SHARED"
           /\ fe_tight' = IF cur # 0
                          THEN t1 /\ nrole >= Z_EROFS_VLE_WORK_PRIMARY_FOLLOWED
                          ELSE t1
    /\ fe_pc' = "add"
    /\ UNCHANGED <<img_bnd, img_pa, fe_page, fe_end, fe_spiltted, fe_ret, wk_vec,
                   wk_room, wk_next, wk_nr, wk_io, wk_res, wk_decomp, pg_id, pg_err>>
    /\ UNCHANGED <<vars, fvars, mvars, xvars>>

\* retry: z_erofs_vle_work_add_page; on success the index, the fixup,
\* ++spiltted, nr_pages and next_part; on -EAGAIN a staging page is needed
AddPart ==
    /\ fe_pc = "add"
    /\ add_page(fe_work, fe_page, fe_type)
    /\ LET index == fe_page - (fe_map.m_la \div PageUnits)
           off == fe_page * PageUnits
       IN IF fe_ret' = "EAGAIN"
          THEN /\ fe_pc' = "stage"
               /\ UNCHANGED <<fe_page, fe_end, fe_spiltted, fe_map, wk_nr, pg_id>>
          ELSE /\ pg_id' = [pg_id EXCEPT ![fe_page] = onlinepage_fixup(@, index)]
               /\ fe_spiltted' = fe_spiltted + 1
               /\ wk_nr' = [wk_nr EXCEPT ![fe_work] = Max(@, index + 1)]
               /\ fe_map' = [fe_map EXCEPT !.m_llen = off + fe_cur - fe_map.m_la]
               /\ fe_end' = fe_cur
               /\ fe_page' = IF fe_cur > 0 THEN fe_page ELSE fe_page - 1
               /\ fe_pc' = IF fe_cur > 0 THEN "part" ELSE "page"
    /\ UNCHANGED <<img_bnd, img_pa, fe_cur, fe_tight, fe_type, fe_work, fe_role,
                   wk_io, wk_res, wk_decomp, pg_err>>
    /\ UNCHANGED <<vars, fvars, mvars, xvars>>

\* __stagingpage_alloc and the add of the staging page as EXCLUSIVE
AddStaging ==
    /\ fe_pc = "stage"
    /\ add_page(fe_work, StagingPage, "EXCLUSIVE")
    /\ fe_pc' = "add"
    /\ UNCHANGED <<img_bnd, img_pa, fe_page, fe_end, fe_cur, fe_spiltted, fe_tight,
                   fe_type, fe_map, fe_work, fe_role, wk_nr, wk_io, wk_res,
                   wk_decomp, pg_id, pg_err>>
    /\ UNCHANGED <<vars, fvars, mvars, xvars>>

\* the last page is done: z_erofs_vle_work_iter_end, then the submission
ReadEnd ==
    /\ fe_pc = "page"
    /\ fe_page < 0
    /\ fe_work' = 0
    /\ fe_pc' = "io"
    /\ UNCHANGED <<img_bnd, img_pa, fe_page, fe_end, fe_cur, fe_spiltted, fe_tight,
                   fe_type, fe_map, fe_role, fe_deficit, fe_ret, wk_vec, wk_room,
                   wk_next, wk_nr, wk_slot, wk_io, wk_res, wk_decomp, pg_id, pg_err>>
    /\ UNCHANGED <<vars, fvars, mvars, xvars>>

\* the read of the compressed page of a work: a slot that is still NULL gets
\* a staging page; z_erofs_vle_read_endio sets PageError on the page of a
\* read that failed
ReadIO(w, failed) ==
    /\ fe_pc = "io"
    /\ wk_nr[w] > 0
    /\ wk_io[w] = "none"
    /\ wk_io' = [wk_io EXCEPT ![w] = IF failed THEN "failed" ELSE "ok"]
    /\ wk_slot' = [wk_slot EXCEPT ![w] =
                      IF @.kind = "NULL" THEN [kind |-> "STAGING", page |-> StagingPage]
                      ELSE @]
    /\ pg_err' = [q \in FilePages |->
                    pg_err[q] \/ (failed /\ wk_slot[w].kind = "FILE" /\ wk_slot[w].page = q)]
    /\ UNCHANGED <<img_bnd, img_pa, fe_pc, fe_page, fe_end, fe_cur, fe_spiltted,
                   fe_tight, fe_type, fe_map, fe_work, fe_role, fe_deficit, fe_ret,
                   wk_vec, wk_room, wk_next, wk_nr, wk_res, wk_decomp, pg_id>>
    /\ UNCHANGED <<vars, fvars, mvars, xvars>>

\* the place of a page in pages[]: 0 for a HEAD entry, else the index
\* recorded in the online page
unzip_pagenr(q, type) == IF type = "HEAD" THEN 0 ELSE pg_id[q]

\* the fill of pages[] from the page vector and then from the compressed
\* slot: the places taken so far, and whether a BUG_ON fired
RECURSIVE unzip_fill(_, _, _)
unzip_fill(ents, nr, acc) ==
    IF ents = <<>> THEN acc
    ELSE LET e == Head(ents)
             n == unzip_pagenr(e[1], e[2])
         IN  IF e[1] = StagingPage THEN unzip_fill(Tail(ents), nr, acc)
             ELSE IF n >= nr \/ n \in acc.taken
             THEN [acc EXCEPT !.bug = TRUE]
             ELSE unzip_fill(Tail(ents), nr,
                             [acc EXCEPT !.taken = @ \cup {n}, !.pages = @ \cup {e[1]}])

\* the entries of pages[]: the page vector, then an in-place file page
unzip_entries(w) ==
    wk_vec[w] \o (IF wk_slot[w].kind = "FILE"
                  THEN <<<<wk_slot[w].page, "EXCLUSIVE">>>> ELSE <<>>)

\* err = -EIO before the decompression: only a managed cache page that is
\* not uptodate is looked at
unzip_input_failed(w) == wk_slot[w].kind = "CACHED" /\ wk_io[w] = "failed"

\* z_erofs_vle_unzip: the fill, the test of the compressed pages, plain copy
\* or decompression (any result on an input whose read failed), SetPageError
\* on the destination pages when err < 0
Unzip(w, good) ==
    /\ fe_pc = "io"
    /\ wk_io[w] # "none"
    /\ wk_res[w] = "none"
    /\ LET f == unzip_fill(unzip_entries(w), wk_nr[w],
                           [taken |-> {}, pages |-> {}, bug |-> FALSE])
           res == IF f.bug THEN "BUG"
                  ELSE IF unzip_input_failed(w) THEN "EIO"
                  ELSE IF good THEN "ok" ELSE "EIO"
       IN  /\ ~f.bug /\ ~unzip_input_failed(w) /\ wk_io[w] = "ok" => good
           /\ f.bug \/ unzip_input_failed(w) => good
           /\ wk_res' = [wk_res EXCEPT ![w] = res]
           /\ wk_decomp' = [wk_decomp EXCEPT ![w] = ~f.bug /\ ~unzip_input_failed(w)]
           /\ pg_err' = [q \in FilePages |->
                           pg_err[q] \/ (res = "EIO" /\ q \in f.pages)]
    /\ UNCHANGED <<img_bnd, img_pa, fe_pc, fe_page, fe_end, fe_cur, fe_spiltted,
                   fe_tight, fe_type, fe_map, fe_work, fe_role, fe_deficit, fe_ret,
                   wk_vec, wk_room, wk_next, wk_nr, wk_slot, wk_io, pg_id>>
    /\ UNCHANGED <<vars, fvars, mvars, xvars>>

PageNext ==
    \/ DoReadPage
    \/ \E rl \in {Z_EROFS_VLE_WORK_PRIMARY, Z_EROFS_VLE_WORK_PRIMARY_TERMINAL,
                  Z_EROFS_VLE_WORK_PRIMARY_FOLLOWED}, found \in BOOLEAN :
          ReadPart(rl, found)
    \/ AddPart
    \/ AddStaging
    \/ ReadEnd
    \/ \E w \in Keys, failed \in BOOLEAN : ReadIO(w, failed)
    \/ \E w \in Keys, good \in BOOLEAN : Unzip(w, good)

PageInit ==
    /\ PageStart
    /\ MainOff /\ FreeOff /\ MapOff /\ KickOff /\ SlotOff /\ SwapOff

PageSpec == PageInit /\ [][PageNext]_pvars

\* ---- MapSpec: the extent index resolver ----------------------------------
\* One call of z_erofs_map_blocks_iter on any content of the cluster index,
\* any requested position and either mode; every level of the recursion of
\* vle_get_logical_extent_head is one step.

\* the bitwise or of two naturals
RECURSIVE BitOr(_, _)
BitOr(a, b) ==
    IF a = 0 THEN b
    ELSE IF b = 0 THEN a
    ELSE (IF a % 2 = 1 \/ b % 2 = 1 THEN 1 ELSE 0) + 2 * BitOr(a \div 2, b \div 2)

flags_xor_kept(flags, flag) == flags

\* m_flags ^= flag
flags_xor(flags, flag) == (flags \ {flag}) \cup ({flag} \ flags)

\* blknr_to_addr: the byte address of a block, a block being a page
blknr_to_addr(pblk) == pblk * PageUnits

\* di = kaddr + vle_extent_blkoff(inode, lcn): the record of the cluster; past
\* the index the bytes are anything
di_at(lcn) == IF lcn \in Lcns THEN {di_index[lcn]} ELSE Records

\* lcn is an unsigned int: below zero it wraps to the top of the range (the
\* top of TLC's integers stands for it, far past every index)
U32(n) == IF n < 0 THEN (2147483647 + n) + 1 ELSE n

clusterofs_of_record(di) == di.clusterofs

\* vle_decompressed_index_clusterofs: the cluster size for NONHEAD, the
\* record's di_clusterofs for PLAIN and HEAD
vle_decompressed_index_clusterofs(di) ==
    IF di.type = "NONHEAD" THEN ClusterSize ELSE di.clusterofs

\* vle_extent_blkaddr: the metadata block that holds the record of lcn
vle_extent_blkaddr(lcn) == 1 + lcn \div RecordsPerBlock

\* the metadata pages as the call sees them
meta_now == [ret |-> mp_ret, ref |-> mp_ref, locks |-> mp_locks, unlocks |-> mp_unlocks]

meta_set(p) ==
    /\ mp_ret' = p.ret
    /\ mp_ref' = p.ref
    /\ mp_locks' = p.locks
    /\ mp_unlocks' = p.unlocks

put_page(p, b) == [p EXCEPT !.ref[b] = @ - 1]
lock_page(p, b) == [p EXCEPT !.locks[b] = @ + 1]
unlock_page(p, b) == [p EXCEPT !.unlocks[b] = @ + 1]

\* erofs_get_meta_page: the page of the block, locked, with a reference
erofs_get_meta_page(p, b) == [p EXCEPT !.ref[b] = @ + 1, !.locks[b] = @ + 1]

\* what erofs_get_meta_page can do: succeed, or fail while failures are left
FetchOutcomes == IF mp_faults > 0 THEN BOOLEAN ELSE {TRUE}
FetchErrors == {"ENOMEM", "EIO"}

\* the page of mblk at the entry of z_erofs_map_blocks_iter: another page, or
\* none, is put and the page of mblk is read (on failure *mpage_ret is left
\* as it was); the page of mblk itself is locked
map_blocks_page(p, mblk, ok) ==
    IF p.ret = 0 \/ p.ret # mblk
    THEN LET q == IF p.ret # 0 THEN put_page(p, p.ret) ELSE p
         IN  IF ok THEN [erofs_get_meta_page(q, mblk) EXCEPT !.ret = mblk] ELSE q
    ELSE lock_page(p, mblk)

\* a backward walk that keeps the lock of the page it leaves
head_page_kept(p, b) == put_page(p, b)

\* kunmap_atomic, unlock_page(mpage), put_page(mpage) of the page the walk
\* leaves
head_page_left(p, b) == put_page(unlock_page(p, b), b)

\* the page of mblk in vle_get_logical_extent_head: when the walk leaves the
\* block, its page is unlocked and put and the page of mblk is read;
\* *mpage_ret is NULL on failure
head_page(p, mblk, ok) ==
    IF p.ret # mblk
    THEN LET q == head_page_left(p, p.ret)
         IN  IF ok THEN [erofs_get_meta_page(q, mblk) EXCEPT !.ret = mblk]
             ELSE [q EXCEPT !.ret = 0]
    ELSE p

\* unmap_out: kunmap_atomic(kaddr); unlock_page(mpage)
unmap_out(p) == unlock_page(p, p.ret)

\* erofs_get_meta_page has failed: the call returns its error, no record was
\* read and the map is as it is
map_nopage(p, rc) ==
    /\ mb_err' = rc
    /\ mb_pc' = "done"
    /\ meta_set(p)
    /\ mp_faults' = mp_faults - 1
    /\ UNCHANGED <<map_la, map_llen, map_pa, map_plen, map_flags, mb_lcn, mb_end,
                   mb_reads>>

\* the exit of z_erofs_map_blocks_iter with an error
map_fail(flags, reads) ==
    /\ mb_err' = "EIO"
    /\ mb_pc' = "done"
    /\ map_flags' = flags
    /\ mb_reads' = reads
    /\ UNCHANGED <<map_la, map_llen, map_pa, map_plen, mb_lcn, mb_end>>

\* exact_hitted and the two lines before it: the mapping is filled in
map_hit(ofs, end, pblk, flags, reads) ==
    /\ map_la' = ofs
    /\ map_llen' = end - ofs
    /\ map_plen' = ClusterSize
    /\ map_pa' = blknr_to_addr(pblk)
    /\ map_flags' = flags \cup {"MAPPED"}
    /\ mb_err' = "ok"
    /\ mb_pc' = "done"
    /\ mb_reads' = reads
    /\ UNCHANGED <<mb_lcn, mb_end>>

\* the call of vle_get_logical_extent_head at label nonhead
map_to_head(lcn, end, flags, reads) ==
    /\ mb_pc' = "head"
    /\ mb_lcn' = lcn
    /\ mb_end' = end
    /\ map_flags' = flags
    /\ mb_reads' = reads
    /\ UNCHANGED <<map_la, map_llen, map_pa, map_plen, mb_err>>

\* "logical cluster number should be >= 1": no walk backward from cluster 0
lcn_is_first(lcn) == lcn = 0

eof_flags_kept(flags) == flags

\* "when trying to read beyond EOF, leave it unmapped": map->m_flags = 0
eof_flags(flags) == {}

\* z_erofs_map_blocks_iter up to its return or to the call of
\* vle_get_logical_extent_head
z_erofs_map_blocks_iter ==
    /\ mb_pc = "call"
    /\ IF map_la >= ISize
       THEN \* beyond EOF: left unmapped
            /\ map_llen' = map_la + 1 - ISize
            /\ map_la' = ISize
            /\ map_flags' = eof_flags(map_flags)
            /\ mb_err' = "ok"
            /\ mb_pc' = "done"
            /\ UNCHANGED <<map_pa, map_plen, mb_lcn, mb_end, mb_reads>>
            /\ UNCHANGED <<mp_ret, mp_ref, mp_locks, mp_unlocks, mp_faults>>
       ELSE LET initial == map_llen = 0
                ofs == map_la + map_llen
                lcn == ofs \div ClusterSize
                ofs_rem == ofs % ClusterSize
                reads == <<lcn>>
                mblk == vle_extent_blkaddr(lcn)
            IN  \E ok \in FetchOutcomes :
                IF mp_ret # mblk /\ ~ok
                THEN \E rc \in FetchErrors :
                        map_nopage(map_blocks_page(meta_now, mblk, ok), rc)
                ELSE
                /\ \E di \in di_at(lcn) :
                    LET logical_cluster_ofs == vle_decompressed_index_clusterofs(di)
                        zipped == map_flags \cup {"ZIPPED"}
                        flags == IF di.type = "PLAIN" /\ ofs_rem >= logical_cluster_ofs
                                 THEN flags_xor(zipped, "ZIPPED")
                                 ELSE zipped
                        end == (lcn + 1) * ClusterSize
                    IN  IF di.type = "RESERVED"
                        THEN map_fail(map_flags, reads)
                        ELSE IF ~initial
                        THEN \* walking mode
                             /\ map_llen' = map_llen + logical_cluster_ofs
                             /\ mb_err' = "ok"
                             /\ mb_pc' = "done"
                             /\ mb_reads' = reads
                             /\ UNCHANGED <<map_la, map_pa, map_plen, map_flags,
                                            mb_lcn, mb_end>>
                        ELSE IF di.type = "NONHEAD"
                        THEN map_to_head(lcn, end, zipped, reads)
                        ELSE IF ofs_rem = logical_cluster_ofs
                        THEN map_hit(map_la, end, di.u, flags, reads)
                        ELSE IF ofs_rem > logical_cluster_ofs
                        THEN map_hit(BitOr(lcn * ClusterSize, logical_cluster_ofs),
                                     end, di.u, flags, reads)
                        ELSE IF lcn_is_first(lcn)
                        THEN map_fail(flags, reads)
                        ELSE map_to_head(U32(lcn - 1),
                                         BitOr(lcn * ClusterSize, logical_cluster_ofs),
                                         flags, reads)
                /\ meta_set(IF mb_pc' = "done"
                            THEN unmap_out(map_blocks_page(meta_now, mblk, ok))
                            ELSE map_blocks_page(meta_now, mblk, ok))
                /\ UNCHANGED mp_faults
    /\ UNCHANGED <<di_index, req_la, req_llen, req_flags>>
    /\ UNCHANGED <<vars, fvars, pvars, xvars>>

delta0_is_zero(delta0, lcn) == delta0 = 0

\* "invalid NONHEAD dl0": the delta is zero or reaches before cluster 0
delta0_invalid(delta0, lcn) == delta0 = 0 \/ delta0 > lcn

head_lcn_kept(lcn, delta0) == lcn

\* the cluster of the recursive call
head_lcn(lcn, delta0) == U32(lcn - delta0)

head_ofs_of_cluster(lcn, clusterofs) == lcn * ClusterSize

\* *ofs of a HEAD or PLAIN record
head_ofs(lcn, clusterofs) == lcn * ClusterSize + (clusterofs % ClusterSize)

\* one level of vle_get_logical_extent_head; at the level that returns, the
\* rest of z_erofs_map_blocks_iter too
vle_get_logical_extent_head ==
    /\ mb_pc = "head"
    /\ \E ok \in FetchOutcomes :
        LET mblk == vle_extent_blkaddr(mb_lcn)
        IN  IF mp_ret # mblk /\ ~ok
            THEN \E rc \in FetchErrors : map_nopage(head_page(meta_now, mblk, ok), rc)
            ELSE
            /\ \E di \in di_at(mb_lcn) :
                LET lcn == mb_lcn
                    reads == Append(mb_reads, lcn)
                    delta0 == di.u % (2 ^ 16)
                    flags == IF di.type = "PLAIN" THEN flags_xor(map_flags, "ZIPPED")
                             ELSE map_flags
                IN  IF di.type = "NONHEAD"
                    THEN IF delta0_invalid(delta0, lcn)
                         THEN map_fail(map_flags, reads)
                         ELSE map_to_head(head_lcn(lcn, delta0), mb_end, map_flags, reads)
                    ELSE IF di.type = "RESERVED"
                    THEN map_fail(map_flags, reads)
                    ELSE map_hit(head_ofs(lcn, di.clusterofs), mb_end, di.u, flags, reads)
            /\ meta_set(IF mb_pc' = "done"
                        THEN unmap_out(head_page(meta_now, mblk, ok))
                        ELSE head_page(meta_now, mblk, ok))
            /\ UNCHANGED mp_faults
    /\ UNCHANGED <<di_index, req_la, req_llen, req_flags>>
    /\ UNCHANGED <<vars, fvars, pvars, xvars>>

MapNext ==
    \/ z_erofs_map_blocks_iter
    \/ vle_get_logical_extent_head

MapInit ==
    /\ MapStart
    /\ MainOff /\ FreeOff /\ PageOff /\ KickOff /\ SlotOff /\ SwapOff

MapSpec == MapInit /\ [][MapNext]_mvars

\* the same call as z_erofs_do_read_page makes it, with the metadata page of
\* an earlier call and reads that can fail
MetaInit ==
    /\ MetaStart
    /\ MainOff /\ FreeOff /\ PageOff /\ KickOff /\ SlotOff /\ SwapOff

MetaSpec == MetaInit /\ [][MapNext]_mvars

\* ---- KickSpec: the pending_bios counter of one io descriptor ---------------
\* The bios of one submission complete in any order, each in a context that
\* is atomic (an interrupt) or may sleep; the submitter adds nr_bios at the
\* end of z_erofs_vle_submit_all; a worker runs the queued work.

\* a trigger that calls z_erofs_vle_unzip_wq in every context of a kernel
\* with CONFIG_PREEMPT_COUNT
kickoff_inline_any(preempt, atomic) == preempt

\* #ifdef CONFIG_PREEMPT_COUNT: if (in_atomic() || irqs_disabled())
\* queue_work(...); else z_erofs_vle_unzip_wq(&io->u.work); without
\* CONFIG_PREEMPT_COUNT: queue_work(...)
kickoff_inline(preempt, atomic) == preempt /\ ~atomic

\* z_erofs_vle_unzip_kickoff(ptr, bios) in context ctx
vle_unzip_kickoff(ctx, atomic, bios) ==
    LET zero == k_pending + bios = 0 IN
    /\ k_pending' = k_pending + bios
    /\ k_calls' = Append(k_calls, <<ctx, bios>>)
    /\ IF ~k_bg
       THEN /\ k_woken' = (k_woken \/ zero)
            /\ UNCHANGED <<k_work, k_unzip>>
       ELSE /\ UNCHANGED k_woken
            /\ IF ~zero THEN UNCHANGED <<k_work, k_unzip>>
               ELSE IF kickoff_inline(k_preempt, atomic)
               THEN /\ k_unzip' = Append(k_unzip, ctx)
                    /\ UNCHANGED k_work
               ELSE /\ k_work' = "queued"
                    /\ UNCHANGED k_unzip

\* bios of the submission that have completed
EndIOCalls == Len(SelectSeq(k_calls, LAMBDA c : c[2] = 0 - 1))

\* the submitter has made its call
SubmitterCalled == \E i \in 1..Len(k_calls) : k_calls[i][1] = "submitter"

\* z_erofs_vle_read_endio of one bio: z_erofs_vle_unzip_kickoff(.., -1)
KickEndIO(atomic) ==
    /\ EndIOCalls < k_nr
    /\ vle_unzip_kickoff(IF atomic THEN "irq" ELSE "task", atomic, 0 - 1)
    /\ UNCHANGED <<k_bg, k_preempt, k_nr>>
    /\ UNCHANGED <<vars, fvars, pvars, mvars, cvars, swvars>>

\* the end of z_erofs_vle_submit_all: a background io without a bio is
\* freed; else z_erofs_vle_unzip_kickoff(.., nr_bios) by the submitter,
\* which may sleep
KickSubmit ==
    /\ ~SubmitterCalled
    /\ ~(k_bg /\ k_nr = 0)
    /\ vle_unzip_kickoff("submitter", FALSE, k_nr)
    /\ UNCHANGED <<k_bg, k_preempt, k_nr>>
    /\ UNCHANGED <<vars, fvars, pvars, mvars, cvars, swvars>>

\* the worker pool runs the queued work: z_erofs_vle_unzip_wq
KickWorker ==
    /\ k_work = "queued"
    /\ k_work' = "done"
    /\ k_unzip' = Append(k_unzip, "worker")
    /\ UNCHANGED <<k_bg, k_preempt, k_nr, k_pending, k_calls, k_woken>>
    /\ UNCHANGED <<vars, fvars, pvars, mvars, cvars, swvars>>

KickNext ==
    \/ \E atomic \in BOOLEAN : KickEndIO(atomic)
    \/ KickSubmit
    \/ KickWorker

KickInit ==
    /\ KickStart
    /\ MainOff /\ FreeOff /\ PageOff /\ MapOff /\ SlotOff /\ SwapOff

KickSpec == KickInit /\ [][KickNext]_kvars

\* ---- SlotSpec: the negotiation of one compressed slot -----------------------
\* A builder that hooked the workgroup to the end of an open chain scans the
\* managed cache and adds its page under work->lock, while the owner of the
\* chain walks it in z_erofs_vle_submit_all; z_erofs_vle_unzip runs when both
\* are done.  Every cmpxchg and xchg on the slot is a step of its own.
c_others == <<vars, fvars, pvars, mvars, kvars, swvars>>

\* erofs_allocpage: the first page of the pool list, a new page if the list
\* is empty
erofs_allocpage(t) ==
    IF c_pool[t] > 0
    THEN c_pool' = [c_pool EXCEPT ![t] = @ - 1] /\ UNCHANGED c_pages
    ELSE c_pages' = c_pages + 1 /\ UNCHANGED c_pool

\* a scan that drops the page it took when its cmpxchg fails
scan_loser_leaks(n) == n

\* the pool list after list_add(&newpage->lru, pagepool)
scan_loser_pool(n) == n + 1

\* if (READ_ONCE(compressed_pages[i]) != NULL) continue;
ScanRead ==
    /\ c_pc[Builder] = "b_read"
    /\ c_pc' = [c_pc EXCEPT ![Builder] = IF c_slot = NullSlot THEN "b_get" ELSE "b_add"]
    /\ UNCHANGED <<c_slot, c_cache, c_uptodate, c_tag, c_ref, c_pool, c_pages,
                   c_held, c_old, c_lost, c_before>>
    /\ UNCHANGED c_others

\* find_get_page; else, with reserve_allocation, a page of the pool or of
\* alloc_pages, whose mapping becomes Z_EROFS_MAPPING_PREALLOCATED; else, or
\* when alloc_pages fails, the slot is left
ScanGet(reserve, ok) ==
    /\ c_pc[Builder] = "b_get"
    /\ IF c_cache
       THEN /\ c_ref' = c_ref + 1
            /\ c_held' = [c_held EXCEPT ![Builder] = "found"]
            /\ c_pc' = [c_pc EXCEPT ![Builder] = "b_cas"]
            /\ UNCHANGED <<c_pool, c_pages>>
       ELSE IF reserve /\ (ok \/ c_pool[Builder] > 0)
       THEN /\ erofs_allocpage(Builder)
            /\ c_held' = [c_held EXCEPT ![Builder] = "new"]
            /\ c_pc' = [c_pc EXCEPT ![Builder] = "b_cas"]
            /\ UNCHANGED c_ref
       ELSE /\ c_pc' = [c_pc EXCEPT ![Builder] = "b_add"]
            /\ UNCHANGED <<c_ref, c_held, c_pool, c_pages>>
    /\ UNCHANGED <<c_slot, c_cache, c_uptodate, c_tag, c_old, c_lost, c_before>>
    /\ UNCHANGED c_others

\* cmpxchg(&compressed_pages[i], NULL, v); the loser does put_page on the
\* page it found, or puts the page it took back on the pool
ScanCas ==
    /\ c_pc[Builder] = "b_cas"
    /\ IF c_slot = NullSlot
       THEN /\ c_slot' = IF c_held[Builder] = "found"
                         THEN FoundSlot(c_uptodate) ELSE PreallocSlot
            /\ UNCHANGED <<c_ref, c_pool, c_lost>>
       ELSE /\ c_lost' = [c_lost EXCEPT ![Builder] = c_held[Builder]]
            /\ IF c_held[Builder] = "found"
               THEN c_ref' = c_ref - 1 /\ UNCHANGED c_pool
               ELSE /\ c_pool' = [c_pool EXCEPT ![Builder] = scan_loser_pool(@)]
                    /\ UNCHANGED c_ref
            /\ UNCHANGED c_slot
    /\ c_held' = [c_held EXCEPT ![Builder] = "none"]
    /\ c_pc' = [c_pc EXCEPT ![Builder] = "b_add"]
    /\ UNCHANGED <<c_cache, c_uptodate, c_tag, c_pages, c_old, c_before>>
    /\ UNCHANGED c_others

\* z_erofs_vle_work_add_page: try_to_reuse_as_compressed_page for an
\* EXCLUSIVE page (reuse), cmpxchg from NULL; else the page vector
SlotAddPage(reuse) ==
    /\ c_pc[Builder] = "b_add"
    /\ c_slot' = IF reuse /\ c_slot = NullSlot THEN FileSlot(1) ELSE c_slot
    /\ c_pc' = [c_pc EXCEPT ![Builder] = "b_end"]
    /\ UNCHANGED <<c_cache, c_uptodate, c_tag, c_ref, c_pool, c_pages, c_held,
                   c_old, c_lost, c_before>>
    /\ UNCHANGED c_others

\* z_erofs_vle_work_iter_end: mutex_unlock(&work->lock)
SlotIterEnd ==
    /\ c_pc[Builder] = "b_end"
    /\ c_pc' = [c_pc EXCEPT ![Builder] = "b_done"]
    /\ UNCHANGED <<c_slot, c_cache, c_uptodate, c_tag, c_ref, c_pool, c_pages,
                   c_held, c_old, c_lost, c_before>>
    /\ UNCHANGED c_others

\* repeat: page = xchg(&grp->compressed_pages[nr], PAGE_MIGRATE_LOCKED)
GrabXchg ==
    /\ c_pc[Submitter] = "s_xchg"
    /\ c_old' = c_slot
    /\ c_slot' = LockedSlot
    /\ c_pc' = [c_pc EXCEPT ![Submitter] =
                   IF c_slot = NullSlot THEN "s_alloc" ELSE "s_put"]
    /\ UNCHANGED <<c_cache, c_uptodate, c_tag, c_ref, c_pool, c_pages, c_held,
                   c_lost, c_before>>
    /\ UNCHANGED c_others

\* the slot held a page: WRITE_ONCE(grp->compressed_pages[nr], page); a
\* preallocated page enters the managed cache and is tagged, or becomes a
\* staging page when add_to_page_cache_lru fails; a page found in the cache
\* is tagged under its lock and keeps the reference find_get_page took
GrabPut(cached) ==
    /\ c_pc[Submitter] = "s_put"
    /\ c_slot' = grab_page_slot(c_old, cached)
    /\ IF c_old.kind = "PREALLOC" /\ cached
       THEN c_cache' = TRUE /\ c_tag' = TRUE /\ c_ref' = 2 /\ UNCHANGED c_uptodate
       ELSE IF c_old.kind = "FOUND"
       THEN c_tag' = TRUE /\ UNCHANGED <<c_cache, c_ref, c_uptodate>>
       ELSE UNCHANGED <<c_cache, c_tag, c_ref, c_uptodate>>
    /\ c_pc' = [c_pc EXCEPT ![Submitter] = "s_done"]
    /\ UNCHANGED <<c_pool, c_pages, c_held, c_old, c_lost, c_before>>
    /\ UNCHANGED c_others

\* out_allocpage: page = __stagingpage_alloc(pagepool, gfp)
GrabAlloc ==
    /\ c_pc[Submitter] = "s_alloc"
    /\ erofs_allocpage(Submitter)
    /\ c_held' = [c_held EXCEPT ![Submitter] = "staging"]
    /\ c_pc' = [c_pc EXCEPT ![Submitter] = "s_cas"]
    /\ UNCHANGED <<c_slot, c_cache, c_uptodate, c_tag, c_ref, c_old, c_lost, c_before>>
    /\ UNCHANGED c_others

\* if (oldpage != cmpxchg(&grp->compressed_pages[nr], oldpage, page)) {
\* list_add(&page->lru, pagepool); cpu_relax(); goto repeat; }
GrabCas ==
    /\ c_pc[Submitter] = "s_cas"
    /\ IF c_slot = LockedSlot
       THEN /\ c_slot' = grab_page_slot(c_old, FALSE)
            /\ c_pc' = [c_pc EXCEPT ![Submitter] = "s_done"]
            /\ UNCHANGED <<c_pool, c_lost>>
       ELSE /\ c_pool' = [c_pool EXCEPT ![Submitter] = @ + 1]
            /\ c_lost' = [c_lost EXCEPT ![Submitter] = "staging"]
            /\ c_pc' = [c_pc EXCEPT ![Submitter] = "s_xchg"]
            /\ UNCHANGED c_slot
    /\ c_held' = [c_held EXCEPT ![Submitter] = "none"]
    /\ UNCHANGED <<c_cache, c_uptodate, c_tag, c_ref, c_pages, c_old, c_before>>
    /\ UNCHANGED c_others

\* z_erofs_gather_if_stagingpage: a staging page goes on the pool list
gather_if_stagingpage(sl, n) == IF sl.kind = "STAGING" THEN n + 1 ELSE n

\* z_erofs_vle_unzip under work->lock, after the walk and the reads: the
\* loop over the compressed pages at its end
SlotUnzip ==
    /\ c_pc[Unzipper] = "u_wait"
    /\ c_pc[Submitter] = "s_done"
    /\ c_pc[Builder] = "b_done"
    /\ c_before' = c_slot
    /\ c_slot' = unzip_slot(c_slot)
    /\ c_pool' = [c_pool EXCEPT ![Unzipper] = gather_if_stagingpage(c_slot, @)]
    /\ c_pc' = [c_pc EXCEPT ![Unzipper] = "u_done"]
    /\ UNCHANGED <<c_cache, c_uptodate, c_tag, c_ref, c_pages, c_held, c_old, c_lost>>
    /\ UNCHANGED c_others

SlotNext ==
    \/ ScanRead
    \/ \E reserve, ok \in BOOLEAN : ScanGet(reserve, ok)
    \/ ScanCas
    \/ \E reuse \in BOOLEAN : SlotAddPage(reuse)
    \/ SlotIterEnd
    \/ GrabXchg
    \/ \E cached \in BOOLEAN : GrabPut(cached)
    \/ GrabAlloc
    \/ GrabCas
    \/ SlotUnzip

SlotInit ==
    /\ SlotStart
    /\ MainOff /\ FreeOff /\ PageOff /\ MapOff /\ KickOff /\ SwapOff

SlotSpec == SlotInit /\ [][SlotNext]_cvars

\* ---- SwapSpec: erofs_migrate_cached_page against the submission -------------
\* The migration core calls erofs_migrate_cached_page with the old and the
\* new page locked, while the owner of the chain may run
\* z_erofs_workgrp_grab_page_for_submission on the slot of the old page.
\* Every cmpxchg and xchg on the slot is a step of its own.
sw_others == <<vars, fvars, pvars, mvars, kvars, cvars>>

\* the migration core has taken the locks of both pages before the call
SwapEnter ==
    /\ sw_pc[Mover] = "idle"
    /\ sw_calls < MaxMoves
    /\ sw_mapping[OldPage] = "mc"
    /\ sw_plock[OldPage] = "free"
    /\ sw_plock' = [p \in {OldPage, NewPage} |-> Mover]
    /\ sw_calls' = sw_calls + 1
    /\ sw_pc' = [sw_pc EXCEPT ![Mover] = "m_private"]
    /\ UNCHANGED <<sw_slot, sw_mapping, sw_tag, sw_ref, sw_uptodate, sw_mutex,
                   sw_frozen, sw_mode, sw_page, sw_locking, sw_ret>>
    /\ UNCHANGED sw_others

\* the return of erofs_migrate_cached_page: the core unlocks both pages
migrate_returns(rc) ==
    /\ sw_ret' = rc
    /\ sw_plock' = [p \in {OldPage, NewPage} |-> "free"]
    /\ sw_pc' = [sw_pc EXCEPT ![Mover] = "idle"]

\* migrate_page_move_mapping: the new page takes the place and the
\* reference of the old page in the mapping
migrate_page_move_mapping ==
    /\ sw_mapping' = [p \in {OldPage, NewPage} |-> IF p = NewPage THEN "mc" ELSE "NULL"]
    /\ sw_ref' = [sw_ref EXCEPT ![OldPage] = @ - 1, ![NewPage] = @ + 1]

\* if (!PagePrivate(page)) return migrate_page(mapping, newpage, page, mode);
\* else grp = page_private(page)
SwapPrivate(moved) ==
    /\ sw_pc[Mover] = "m_private"
    /\ IF sw_tag[OldPage]
       THEN /\ sw_pc' = [sw_pc EXCEPT ![Mover] = "m_lock"]
            /\ UNCHANGED <<sw_mapping, sw_ref, sw_plock, sw_ret>>
       ELSE IF moved
       THEN migrate_page_move_mapping /\ migrate_returns("SUCCESS")
       ELSE migrate_returns("EAGAIN") /\ UNCHANGED <<sw_mapping, sw_ref>>
    /\ UNCHANGED <<sw_slot, sw_tag, sw_uptodate, sw_mutex, sw_frozen, sw_mode,
                   sw_page, sw_locking, sw_calls>>
    /\ UNCHANGED sw_others

\* mutex_trylock(&primary_work->lock); when it is taken, -EAGAIN under
\* MIGRATE_ASYNC, else mutex_lock waits for the holder
SwapLock ==
    /\ sw_pc[Mover] = "m_lock"
    /\ IF sw_mutex = "free"
       THEN /\ sw_mutex' = Mover
            /\ sw_pc' = [sw_pc EXCEPT ![Mover] = "m_check"]
            /\ UNCHANGED <<sw_plock, sw_ret>>
       ELSE /\ sw_mode = "MIGRATE_ASYNC"
            /\ migrate_returns("EAGAIN")
            /\ UNCHANGED sw_mutex
    /\ UNCHANGED <<sw_slot, sw_mapping, sw_tag, sw_ref, sw_uptodate, sw_frozen,
                   sw_mode, sw_page, sw_locking, sw_calls>>
    /\ UNCHANGED sw_others

\* the holder of work->lock leaves: mutex_unlock
SwapHolderUnlock ==
    /\ sw_mutex = Holder
    /\ sw_mutex' = "free"
    /\ UNCHANGED <<sw_slot, sw_mapping, sw_tag, sw_ref, sw_plock, sw_uptodate,
                   sw_frozen, sw_mode, sw_pc, sw_page, sw_locking, sw_ret, sw_calls>>
    /\ UNCHANGED sw_others

\* the frozen test (mutex_unlock, -EBUSY), then migrate_page_move_mapping,
\* which moves the page or fails (mutex_unlock, return rc)
SwapCheck(moved) ==
    /\ sw_pc[Mover] = "m_check"
    /\ IF sw_frozen
       THEN /\ sw_mutex' = "free"
            /\ migrate_returns("EBUSY")
            /\ UNCHANGED <<sw_mapping, sw_ref>>
       ELSE IF moved
       THEN /\ migrate_page_move_mapping
            /\ sw_pc' = [sw_pc EXCEPT ![Mover] = "m_cas"]
            /\ UNCHANGED <<sw_mutex, sw_plock, sw_ret>>
       ELSE /\ sw_mutex' = "free"
            /\ migrate_returns("EAGAIN")
            /\ UNCHANGED <<sw_mapping, sw_ref>>
    /\ UNCHANGED <<sw_slot, sw_tag, sw_uptodate, sw_frozen, sw_mode, sw_page,
                   sw_locking, sw_calls>>
    /\ UNCHANGED sw_others

\* locking = false; victim = cmpxchg(&grp->compressed_pages[i], page,
\* newpage): on victim == page get_page(newpage), the new page is tagged and
\* the loop ends; on victim == PAGE_MIGRATE_LOCKED locking = true; after the
\* loop "if (i >= clusterpages) DBG_BUGON(!locking); else locking = false"
SwapCas ==
    /\ sw_pc[Mover] = "m_cas"
    /\ IF sw_slot = OldPage
       THEN /\ sw_slot' = NewPage
            /\ sw_ref' = [sw_ref EXCEPT ![NewPage] = @ + 1]
            /\ sw_tag' = [sw_tag EXCEPT ![NewPage] = TRUE]
            /\ sw_locking' = FALSE
       ELSE /\ sw_locking' = (sw_slot = "LOCKED")
            /\ UNCHANGED <<sw_slot, sw_ref, sw_tag>>
    /\ sw_pc' = [sw_pc EXCEPT ![Mover] = "m_copy"]
    /\ UNCHANGED <<sw_mapping, sw_plock, sw_uptodate, sw_mutex, sw_frozen, sw_mode,
                   sw_page, sw_ret, sw_calls>>
    /\ UNCHANGED sw_others

\* a migration that drops the reference of the old page in every case
migrate_put_always(n, locking) == n - 1

\* if (!locking) put_page(page);
migrate_put(n, locking) == IF locking THEN n ELSE n - 1

\* ClearPagePrivate(page); set_page_private(page, 0); migrate_page_copy;
\* mutex_unlock; put_page unless locking; return MIGRATEPAGE_SUCCESS
SwapCopy ==
    /\ sw_pc[Mover] = "m_copy"
    /\ sw_tag' = [sw_tag EXCEPT ![OldPage] = FALSE]
    /\ sw_mutex' = "free"
    /\ sw_ref' = [sw_ref EXCEPT ![OldPage] = migrate_put(@, sw_locking)]
    /\ migrate_returns("SUCCESS")
    /\ UNCHANGED <<sw_slot, sw_mapping, sw_uptodate, sw_frozen, sw_mode, sw_page,
                   sw_locking, sw_calls>>
    /\ UNCHANGED sw_others

\* repeat: page = xchg(&grp->compressed_pages[nr], PAGE_MIGRATE_LOCKED);
\* NULL goes to out_allocpage; else mapping = READ_ONCE(page->mapping), which
\* is the managed cache or NULL here
SwapGrabXchg ==
    /\ sw_pc[Submitter] = "s_xchg"
    /\ sw_page' = sw_slot
    /\ sw_slot' = "LOCKED"
    /\ sw_pc' = [sw_pc EXCEPT ![Submitter] =
                    IF sw_slot = "NULL" THEN "s_alloc" ELSE "s_lock"]
    /\ UNCHANGED <<sw_mapping, sw_tag, sw_ref, sw_plock, sw_uptodate, sw_mutex,
                   sw_frozen, sw_mode, sw_locking, sw_ret, sw_calls>>
    /\ UNCHANGED sw_others

\* lock_page(page); if (page->mapping == mc): WRITE_ONCE(slot, page), the
\* page is tagged (with get_page) when it was not, unlock_page when it is
\* uptodate, else it stays locked for the read; the truncation case:
\* unlock_page, put_page, tocache, out_allocpage
SwapGrabLock ==
    /\ sw_pc[Submitter] = "s_lock"
    /\ sw_plock[sw_page] = "free"
    /\ IF sw_mapping[sw_page] = "mc"
       THEN /\ sw_slot' = sw_page
            /\ sw_tag' = [sw_tag EXCEPT ![sw_page] = TRUE]
            /\ sw_ref' = [sw_ref EXCEPT ![sw_page] = IF sw_tag[sw_page] THEN @ ELSE @ + 1]
            /\ sw_plock' = [sw_plock EXCEPT ![sw_page] =
                               IF sw_uptodate THEN "free" ELSE Submitter]
            /\ sw_pc' = [sw_pc EXCEPT ![Submitter] =
                            IF sw_uptodate THEN "s_done" ELSE "s_read"]
       ELSE /\ sw_ref' = [sw_ref EXCEPT ![sw_page] = @ - 1]
            /\ sw_pc' = [sw_pc EXCEPT ![Submitter] = "s_alloc"]
            /\ UNCHANGED <<sw_slot, sw_tag, sw_plock>>
    /\ UNCHANGED <<sw_mapping, sw_uptodate, sw_mutex, sw_frozen, sw_mode, sw_page,
                   sw_locking, sw_ret, sw_calls>>
    /\ UNCHANGED sw_others

\* out_allocpage: a staging page; cmpxchg(&grp->compressed_pages[nr],
\* oldpage, page) from PAGE_MIGRATE_LOCKED, on failure goto repeat; with
\* tocache add_to_page_cache_lru, which fails as the index is taken:
\* page->mapping = Z_EROFS_MAPPING_STAGING
SwapGrabAlloc ==
    /\ sw_pc[Submitter] = "s_alloc"
    /\ IF sw_slot = "LOCKED"
       THEN /\ sw_slot' = "STAGING"
            /\ sw_pc' = [sw_pc EXCEPT ![Submitter] = "s_done"]
       ELSE /\ sw_pc' = [sw_pc EXCEPT ![Submitter] = "s_xchg"]
            /\ UNCHANGED sw_slot
    /\ sw_page' = "NULL"
    /\ UNCHANGED <<sw_mapping, sw_tag, sw_ref, sw_plock, sw_uptodate, sw_mutex,
                   sw_frozen, sw_mode, sw_locking, sw_ret, sw_calls>>
    /\ UNCHANGED sw_others

\* z_erofs_vle_read_endio of the cached page: SetPageUptodate, unlock_page
SwapEndIO ==
    /\ sw_pc[Submitter] = "s_read"
    /\ sw_uptodate' = TRUE
    /\ sw_plock' = [sw_plock EXCEPT ![sw_page] = "free"]
    /\ sw_pc' = [sw_pc EXCEPT ![Submitter] = "s_done"]
    /\ UNCHANGED <<sw_slot, sw_mapping, sw_tag, sw_ref, sw_mutex, sw_frozen,
                   sw_mode, sw_page, sw_locking, sw_ret, sw_calls>>
    /\ UNCHANGED sw_others

SwapNext ==
    \/ SwapEnter
    \/ \E moved \in BOOLEAN : SwapPrivate(moved)
    \/ SwapLock
    \/ SwapHolderUnlock
    \/ \E moved \in BOOLEAN : SwapCheck(moved)
    \/ SwapCas
    \/ SwapCopy
    \/ SwapGrabXchg
    \/ SwapGrabLock
    \/ SwapGrabAlloc
    \/ SwapEndIO

SwapInit ==
    /\ SwapStart
    /\ MainOff /\ FreeOff /\ PageOff /\ MapOff /\ KickOff /\ SlotOff

SwapSpec == SwapInit /\ [][SwapNext]_swvars

\* ==== properties =========================================================
\* every read operation has returned, every bio has completed and every
\* worker has run to its end
Quiescent ==
    /\ \A r \in Readers : pc[r] = "out" /\ inflight[r] = {}
    /\ \A w \in Workers : pc[w] \in {"w_idle", "w_done"}

\* reader r has a page part in workgroup g
HasPageIn(r, g) == unzip_ended(g, r) > 0

\* ---- C1 ------------------------------------------------------------------
\* C1: at most one workgroup is registered for a key at any time, and no
\* duplicate stays allocated; a creator whose registration loses the race
\* frees its duplicate, leaves owned_head unchanged, reports no error and
\* goes back to the lookup, which finds the winner's workgroup (the only
\* error of a creator is -ENOMEM, when it could not allocate at all).
C1_OnePerKey ==
    /\ [](/\ \A g, h \in registered : gkey[g] = gkey[h] => g = h
          /\ allocated = registered
          /\ \A r \in Readers : pc[r] = "lookup" => erofs_find_workgroup(idx[r]) # 0)
    /\ [][\A r \in Readers :
            pc[r] = "register" /\ pc'[r] # "register" /\ erofs_register_workgroup_err(idx[r])
            => /\ allocated' = allocated /\ registered' = registered
               /\ owned_head'[r] = owned_head[r]
               /\ \/ pc'[r] = "lookup" /\ err'[r] = err[r]
                  \/ pc'[r] = AfterError(r) /\ err'[r]]_vars

\* a creator has lost the race and is about to look the key up again
C1_Witness ==
    \E r \in Readers : pc[r] = "lookup" /\ erofs_find_workgroup(idx[r]) # 0

\* ---- C2 ------------------------------------------------------------------
\* C2: a workgroup whose next left NIL is passed to z_erofs_vle_unzip, which
\* resets next to NIL: once everything has come to rest, no workgroup is
\* left claimed (none was skipped).
C2_NeverSkipped == Quiescent => \A g \in Groups : next[g] = NIL

\* ---- C3 ------------------------------------------------------------------
\* C3 (as amended): in every claim cycle of a workgroup exactly one builder
\* is given hosted == true; a builder that works on it with hosted == true
\* is that one; every other builder has hosted == false and puts its
\* reference at iter_end.  Which read operation submits the workgroup is
\* decided by the chain it ends up on, not by who hosted it.
C3_OneHost ==
    /\ [](/\ \A g \in Groups : Len(grants[g]) = IF next[g] # NIL THEN 1 ELSE 0
          /\ \A r \in Readers :
                pc[r] \in {"scan", "add", "iter_end"} /\ hosted[r]
                => grants[b_grp[r]] = <<r>>)
    /\ [][\A r \in Readers :
            pc[r] = "iter_end" /\ pc'[r] # "iter_end" /\ grants[b_grp[r]] # <<r>>
            => /\ ~hosted[r]
               /\ refcount'[b_grp[r]] = refcount[b_grp[r]] - 1
               /\ owned_head'[r] = owned_head[r]]_vars

\* two read operations have joined one workgroup in the same claim cycle
C3_Witness ==
    \E g \in Groups, r \in Readers :
        /\ Len(grants[g]) = 1 /\ grants[g] # <<r>>
        /\ HasPageIn(r, g) /\ HasPageIn(grants[g][1], g)

\* C3 as stated: a read operation that joined a workgroup without hosting it
\* does not submit it.
C3_JoinerNeverSubmits ==
    \A r \in Readers : \A g \in todo[r] : HasPageIn(r, g) => grants[g] = <<r>>

\* ---- C4 ------------------------------------------------------------------
\* C4: when the cmpxchg of grp->next from NIL succeeds, next holds the
\* caller's previous owned_head, owned_head is the workgroup, hosted is true
\* and the role is PRIMARY_FOLLOWED; when it fails, the tests are made again
\* and owned_head and hosted are as before.
C4_ClaimNil ==
    [][\A r \in Readers :
        pc[r] = "cas_nil" /\ pc'[r] # "cas_nil"
        => IF next[b_grp[r]] = NIL
           THEN /\ next'[b_grp[r]] = owned_head[r]
                /\ owned_head'[r] = b_grp[r]
                /\ hosted'[r]
                /\ role'[r] = Z_EROFS_VLE_WORK_PRIMARY_FOLLOWED
           ELSE /\ pc'[r] = "claim"
                /\ owned_head'[r] = owned_head[r]
                /\ hosted'[r] = hosted[r]]_vars

\* a workgroup that was found in the registry (its managed cache page is
\* from an earlier cycle) has been claimed by the type 1 cmpxchg
C4_Witness ==
    \E r \in Readers :
        /\ pc[r] = "scan" /\ hosted[r]
        /\ role[r] = Z_EROFS_VLE_WORK_PRIMARY_FOLLOWED
        /\ owned_head[r] = b_grp[r]
        /\ slot[b_grp[r]].kind = "CACHED"

\* ---- C5 ------------------------------------------------------------------
\* C5: when the cmpxchg of grp->next from TAIL succeeds, next holds the
\* caller's previous owned_head, the role is PRIMARY_TERMINAL, hosted stays
\* false and the caller's owned_head is TAIL again.
C5_ClaimTail ==
    [][\A r \in Readers :
        pc[r] = "cas_tail" /\ pc'[r] # "cas_tail"
        => IF next[b_grp[r]] = TAIL
           THEN /\ next'[b_grp[r]] = owned_head[r]
                /\ role'[r] = Z_EROFS_VLE_WORK_PRIMARY_TERMINAL
                /\ ~hosted[r] /\ ~hosted'[r]
                /\ owned_head'[r] = TAIL
           ELSE /\ pc'[r] = "claim"
                /\ next' = next
                /\ owned_head'[r] = owned_head[r]
                /\ hosted'[r] = hosted[r]]_vars

\* a caller with a chain of its own has hooked it behind the open chain of
\* another read operation
C5_Witness ==
    \E r \in Readers :
        /\ pc[r] = "scan" /\ ~hosted[r]
        /\ role[r] = Z_EROFS_VLE_WORK_PRIMARY_TERMINAL
        /\ owned_head[r] = TAIL
        /\ next[b_grp[r]] \in Groups

\* ---- C6 ------------------------------------------------------------------
\* C6: when the workgroup found by the lookup has a next that is neither NIL
\* nor TAIL, the claim changes neither any next nor the caller's owned_head,
\* hosted is false, the role is PRIMARY and no host is added.
C6_ClaimLinked ==
    [][\A r \in Readers :
        /\ pc[r] \in {"lock", "claim"} /\ pc'[r] # pc[r]
        /\ next[b_grp[r]] \notin {NIL, TAIL}
        => /\ next' = next
           /\ owned_head'[r] = owned_head[r]
           /\ ~hosted'[r]
           /\ role'[r] = Z_EROFS_VLE_WORK_PRIMARY
           /\ grants' = grants]_vars

\* a builder has joined a workgroup of a closed chain with role PRIMARY (its
\* slot is empty, so the role does not come from the cache scan)
C6_Witness ==
    \E r \in Readers :
        /\ pc[r] = "add" /\ ~hosted[r]
        /\ role[r] = Z_EROFS_VLE_WORK_PRIMARY
        /\ next[b_grp[r]] \notin {NIL, TAIL}
        /\ slot[b_grp[r]].kind = "NULL"

\* ---- C7 ------------------------------------------------------------------
\* C7: z_erofs_vle_work_iter_end always unlocks the mutex of the work and
\* puts the reference exactly when hosted is false; the reference of the
\* host is held while the workgroup is claimed, and z_erofs_vle_unzip puts
\* it after the pass.
C7_IterEnd ==
    /\ [](\A g \in registered : next[g] # NIL => refcount[g] >= 2)
    /\ [][\A r \in Readers :
            pc[r] = "iter_end" /\ pc'[r] # "iter_end"
            => /\ lock[b_grp[r]] = r /\ lock'[b_grp[r]] = 0
               /\ refcount'[b_grp[r]] =
                     refcount[b_grp[r]] - (IF hosted[r] THEN 0 ELSE 1)]_vars
    /\ [][\A t \in Threads :
            pc[t] = "uz_put" /\ pc'[t] # "uz_put"
            => refcount'[u_grp[t]] = refcount[u_grp[t]] - 1]_vars

\* a hosted builder has left iter_end: the mutex is free, the workgroup is
\* claimed and holds the host's reference next to the registry's
C7_Witness ==
    \E g \in registered :
        /\ lock[g] = 0 /\ next[g] # NIL /\ refcount[g] = 2
        /\ \A r \in Readers : b_grp[r] # g
        /\ Len(pagevec[g]) > 0

\* ---- C8 ------------------------------------------------------------------
\* C8: next leaves NIL, returns to NIL, and the page vector changes only in
\* steps that end with the mutex of the work held, so whenever the mutex is
\* free and the page vector is not empty, next is not NIL.
C8_MutexSerializes ==
    /\ [](\A g \in Groups : lock[g] = 0 /\ Len(pagevec[g]) > 0 => next[g] # NIL)
    /\ [][\A g \in Groups :
            (pagevec'[g] # pagevec[g] \/ (next[g] = NIL) # (next'[g] = NIL))
            => lock'[g] # 0]_vars

\* a page was appended to a workgroup whose chain is closed already, and the
\* mutex is free again
C8_Witness ==
    \E g \in Groups :
        /\ lock[g] = 0 /\ Len(pagevec[g]) >= 2
        /\ next[g] = TAIL_CLOSED

\* ---- C9 ------------------------------------------------------------------
\* C9: every page part a read operation added to a page vector or to a
\* compressed slot is ended: once everything has come to rest, no read
\* operation has a page part left.
C9_AllFinalized == Quiescent => \A r \in Readers : online[r] = 0

\* ---- C10 -----------------------------------------------------------------
\* C10: the pass over the I/O list of a submission is triggered at most
\* once; when it is triggered, the submitter has made its add and every bio
\* has completed; a thread walks the I/O list only after the trigger; and
\* once the add is made and all of the nr_bios > 0 bios have completed, it
\* has been triggered.
C10_TriggerOnce ==
    \A r \in Readers :
        /\ trig[r] <= 1
        /\ trig[r] = 1 =>
              /\ inflight[r] = {} /\ pending_bios[r] = 0
              /\ pc[r] \notin {"walk", "walk_end", "kickoff"}
        /\ pc[r] = "kickoff" => pending_bios[r] = Cardinality(inflight[r]) - nr_bios[r]
        /\ \A t \in Threads :
              ReaderOf(t) = r /\ u_list[t] = 2 /\ pc[t] \in {"ua", "uz_lock", "uz_unlock", "uz_put"}
              => trig[r] = 1
        /\ (/\ pc[r] \notin {"map", "walk", "walk_end", "kickoff"}
            /\ nr_bios[r] > 0 /\ inflight[r] = {})
              => trig[r] = 1

\* a background submission of two bios has triggered the pass of its worker
\* while the submitter is about to walk the no-I/O list
C10_Witness ==
    \E r \in Readers :
        /\ trig[r] = 1 /\ nr_bios[r] = 2
        /\ pc[r] = "ua" /\ u_list[r] = 1
        /\ pc[WorkerOf(r)] = "ua" /\ u_list[WorkerOf(r)] = 2

\* ---- C11 -----------------------------------------------------------------
\* C11: the closing cmpxchg of the submitter and the linking cmpxchg of a
\* builder both start from next == TAIL and each is one step, so only one of
\* them takes a given TAIL.  A round of the walk goes on with the value it
\* read from next (the groups a builder linked there) and stops only after
\* it has closed a TAIL; a builder whose cmpxchg failed keeps its chain and
\* gets role PRIMARY; no workgroup a submission walked has next == TAIL.
C11_CloseOrLink ==
    /\ [](\A r \in Readers : \A g \in todo[r] : next[g] # TAIL)
    /\ [][\A r \in Readers :
            /\ pc[r] = "walk"
            /\ <<pc[r], s_owned[r], todo[r], lstgrp[r]>>' # <<pc[r], s_owned[r], todo[r], lstgrp[r]>>
            => /\ s_owned'[r] = next[s_owned[r]]
               /\ s_owned[r] \in todo'[r]
               /\ (next[s_owned[r]] = TAIL) <=> (pc'[r] = "walk_end")
               /\ next[s_owned[r]] = TAIL => next'[s_owned[r]] = TAIL_CLOSED]_vars
    /\ [][\A r \in Readers :
            pc[r] = "claim" /\ pc'[r] # "claim"
            => /\ role'[r] = Z_EROFS_VLE_WORK_PRIMARY /\ ~hosted'[r]
               /\ owned_head'[r] = owned_head[r]
               /\ next' = next]_vars

\* a submission walks into a workgroup that another read operation hosted
\* and linked behind the tail of the submitter's chain
C11_Witness ==
    \E r \in Readers, g \in Groups :
        /\ pc[r] = "walk" /\ s_owned[r] = g /\ todo[r] # {}
        /\ Len(grants[g]) = 1 /\ grants[g] # <<r>>

\* ---- C13 -----------------------------------------------------------------
\* C13: z_erofs_vle_unzip ends in this order: nr_pages and vcnt are zeroed
\* and next is written NIL while work->lock is held, then the mutex is
\* released, then the reference is dropped.  So next == NIL always comes
\* with an empty page vector, and a builder that takes the mutex afterwards
\* and finds next == NIL claims the workgroup.
C13_ResetUnlockPut ==
    /\ [](\A g \in Groups :
            next[g] = NIL => pagevec[g] = <<>> /\ nr_pages[g] = 0)
    /\ [](\A t \in Threads :
            /\ pc[t] = "uz_unlock"
               => /\ lock[u_grp[t]] = t /\ next[u_grp[t]] = NIL
                  /\ pagevec[u_grp[t]] = <<>> /\ nr_pages[u_grp[t]] = 0
            /\ pc[t] = "uz_put" => lock[u_grp[t]] # t)
    /\ [][\A g \in Groups :
            next[g] # NIL /\ next'[g] = NIL
            => \E t \in Threads :
                  /\ pc[t] = "uz_lock" /\ pc'[t] = "uz_unlock" /\ u_grp[t] = g
                  /\ lock'[g] = t /\ refcount'[g] = refcount[g]]_vars
    /\ [][\A t \in Threads :
            pc[t] = "uz_unlock" /\ pc'[t] # "uz_unlock"
            => /\ pc'[t] = "uz_put" /\ lock'[u_grp[t]] = 0
               /\ refcount' = refcount /\ next' = next]_vars
    /\ [][\A t \in Threads :
            pc[t] = "uz_put" /\ pc'[t] # "uz_put"
            => refcount'[u_grp[t]] = refcount[u_grp[t]] - 1]_vars
    /\ [][\A r \in Readers :
            pc[r] = "cas_nil" /\ pc'[r] # "cas_nil"
            => /\ next[b_grp[r]] = NIL /\ pagevec[b_grp[r]] = <<>>
               /\ hosted'[r] /\ owned_head'[r] = b_grp[r]
               /\ next'[b_grp[r]] = owned_head[r]]_vars

\* a builder holds the mutex of a workgroup and is about to claim it while
\* the pass that reset it has not dropped its reference yet
C13_Witness ==
    \E r \in Readers, t \in Threads :
        /\ pc[r] = "cas_nil" /\ pc[t] = "uz_put" /\ u_grp[t] = b_grp[r]
        /\ lock[b_grp[r]] = r /\ next[b_grp[r]] = NIL

\* ---- C12 -----------------------------------------------------------------
\* C12: the memory of a workgroup is freed exactly once, and only after its
\* reference count has reached zero and an RCU grace period has elapsed; no
\* RCU reader and no reference holder accesses a freed workgroup.
C12_FreedAfterZeroAndGrace ==
    /\ [](~dfree)
    /\ [](\A t \in FThreads : fptr[t] # 0 => wg_live[fptr[t]])
    /\ [][\A o \in WgObjs :
            wg_live[o] /\ ~wg_live'[o]
            => wg_ref[o] = 0 /\ wg_cb[o] = 1 /\ wg_wait[o] = {}]_fvars

\* C12 for the workgroups that were registered: such a workgroup is freed
\* once, by the RCU callback, with a count of zero and after the read-side
\* sections that were open at call_rcu have ended; a workgroup whose
\* registration failed was never visible and is freed at once by its
\* creator, with its count still 1.  No thread that holds a pointer it got in
\* a read-side section, under a reference or from the tag of a locked page
\* finds the memory freed.
C12_FreedOnce ==
    /\ [](~dfree)
    /\ [](\A o \in WgObjs : wg_cb[o] <= 1 /\ (wg_cb[o] = 1 => wg_live[o] /\ wg_ref[o] = 0))
    /\ [](\A t \in FThreads : fptr[t] # 0 => wg_live[fptr[t]])
    /\ [](workstn # 0 => wg_live[workstn])
    /\ [](pg_private # 0 => wg_live[pg_private])
    /\ [][\A o \in WgObjs :
            wg_live[o] /\ ~wg_live'[o]
            => \/ wg_ref[o] = 0 /\ wg_cb[o] = 1 /\ wg_wait[o] = {}
               \/ \E t \in Readers :
                     /\ fpc[t] = "register" /\ fptr[t] = o /\ workstn # o
                     /\ wg_ref[o] = 1 /\ wg_cb[o] = 0]_fvars

\* the callback of a workgroup is queued while a thread that looked the
\* workgroup up is still inside its read-side section
C12_Witness ==
    \E o \in WgObjs, t \in Readers :
        /\ wg_cb[o] = 1 /\ t \in wg_wait[o]
        /\ fpc[t] = "get" /\ fptr[t] = o

\* ---- C14 -----------------------------------------------------------------
\* C14: z_erofs_vle_work_add_page stores the page into a compressed slot only
\* when the role is at least PRIMARY, the type is EXCLUSIVE and the slot is
\* won from NULL; a HEAD or TAIL_SHARED page, or any page under a role below
\* PRIMARY, leaves the slot alone and goes to the page vector: one more entry
\* on success, -EAGAIN with the vector unchanged when the vector refuses it.
C14_AddPage ==
    [][(fe_pc \in {"add", "stage"} /\ fe_pc' # fe_pc)
       => (LET w == fe_work
              type == IF fe_pc = "add" THEN fe_type ELSE "EXCLUSIVE"
              q == IF fe_pc = "add" THEN fe_page ELSE StagingPage
          IN  /\ wk_slot' # wk_slot
                 => /\ fe_role >= Z_EROFS_VLE_WORK_PRIMARY
                    /\ type = "EXCLUSIVE"
                    /\ wk_slot[w].kind = "NULL"
                    /\ wk_slot' = [wk_slot EXCEPT ![w].kind = wk_slot'[w].kind,
                                                  ![w].page = q]
                    /\ wk_vec' = wk_vec /\ fe_ret' = "ok"
              /\ type \in {"HEAD", "TAIL_SHARED"} \/ fe_role < Z_EROFS_VLE_WORK_PRIMARY
                 => /\ wk_slot' = wk_slot
                    /\ \/ /\ fe_ret' = "ok"
                          /\ wk_vec' = [wk_vec EXCEPT ![w] = Append(@, <<q, type>>)]
                       \/ /\ fe_ret' = "EAGAIN"
                          /\ wk_vec' = wk_vec
                          /\ vec_refuses(w, type))]_pvars

\* a file page sits in a compressed slot and the vector has just refused a
\* page that is not EXCLUSIVE
C14_Witness ==
    /\ fe_pc = "stage" /\ fe_ret = "EAGAIN" /\ fe_type # "EXCLUSIVE"
    /\ \E w \in Keys : wk_slot[w].kind = "FILE"

\* ---- C15 -----------------------------------------------------------------
\* C15: the second part of a split page that starts at in-page offset 0 is
\* typed EXCLUSIVE only if the role of the work it is added to is at least
\* PRIMARY_TERMINAL; otherwise it is typed TAIL_SHARED.
C15_TailType ==
    fe_pc \in {"add", "stage"} /\ fe_spiltted = 1 /\ fe_cur = 0
    => /\ fe_type \in {"EXCLUSIVE", "TAIL_SHARED"}
       /\ fe_type = "EXCLUSIVE" => fe_role >= Z_EROFS_VLE_WORK_PRIMARY_TERMINAL
       /\ fe_role < Z_EROFS_VLE_WORK_PRIMARY_TERMINAL => fe_type = "TAIL_SHARED"

\* the second part of a split page, at offset 0, is about to be added as
\* EXCLUSIVE to a work begun for it
C15_Witness ==
    /\ fe_pc = "add" /\ fe_spiltted = 1 /\ fe_cur = 0
    /\ fe_type = "EXCLUSIVE"
    /\ fe_role >= Z_EROFS_VLE_WORK_PRIMARY_TERMINAL

\* ---- C16 -----------------------------------------------------------------
\* C16: when z_erofs_vle_unzip fills pages[], the HEAD entries go to index 0
\* and the other entries and the in-place slot page to their recorded index;
\* these indices are below nr_pages and pairwise distinct, so neither
\* BUG_ON(pagenr >= nr_pages) nor BUG_ON(pages[pagenr] != NULL) fires.
C16_NoBugOn == \A w \in Keys : wk_res[w] # "BUG"

\* ---- C17 -----------------------------------------------------------------
\* C17: if the read of a compressed page of a workgroup failed,
\* z_erofs_vle_unzip returns an I/O error and marks the destination pages
\* errored without invoking plain copy or a decompressor, whatever kind of
\* page held the failed input.
C17_FailedInputShortCircuits ==
    \A w \in Keys :
        wk_io[w] = "failed" /\ wk_res[w] \notin {"none", "BUG"}
        => /\ wk_res[w] = "EIO"
           /\ ~wk_decomp[w]
           /\ \A i \in 1..Len(wk_vec[w]) :
                 wk_vec[w][i][1] # StagingPage => pg_err[wk_vec[w][i][1]]

\* ---- reclaim and migration of the managed cache page (FreeSpec) -----------
\* C22: erofs_try_to_free_cached_page on a page whose workgroup has a
\* reference count other than 1 (the freeze from 1 fails) returns 0 and
\* changes no compressed slot, no page tag, no page reference count and no
\* workgroup reference count.
C22_BusyChangesNothing ==
    [][(/\ fpc[Releaser] = "r_freeze"
        /\ fpc'[Releaser] # "r_freeze"
        /\ wg_ref[fptr[Releaser]] # 1)
       => (/\ fret'[Releaser] = "0"
           /\ fpc'[Releaser] = "idle"
           /\ UNCHANGED <<wg_slot, pg_private, pg_count, wg_ref>>)]_fvars

\* the page cache was refused the page of a workgroup a reader holds
C22_Witness ==
    /\ fret[Releaser] = "0"
    /\ fpc[Releaser] = "idle"
    /\ pg_private # 0
    /\ wg_ref[pg_private] = 2
    /\ wg_slot[pg_private]
    /\ pg_count = 2

\* C23: erofs_try_to_free_all_cached_pages never waits: each of its steps
\* can be taken at once.  It returns -EBUSY when the trylock of the work
\* mutex fails and when the trylock of the cached page fails, and then
\* changes no slot and no tag; it returns 0 only with the slot NULL, and a
\* slot that held a page is cleared only while the page is unlocked, together
\* with the tag and the reference; after every return the shrinker does not
\* hold the work mutex.
C23_FreeAllNeverWaits ==
    /\ [](/\ fpc[Shrinker] = "s_pages" => ENABLED ShrinkPages
          /\ fpc[Shrinker] = "s_slot" => ENABLED ShrinkSlot
          /\ fpc[Shrinker] = "s_unlock" => ENABLED ShrinkUnlock
          /\ \A o \in WgObjs :
                wg_mutex[o] = Shrinker =>
                    fpc[Shrinker] \in {"s_slot", "s_unlock"} /\ fptr[Shrinker] = o)
    /\ [][LET o == fptr[Shrinker]
          IN  /\ (fpc[Shrinker] = "s_pages" /\ fpc'[Shrinker] # "s_pages") =>
                    /\ IF wg_mutex[o] # 0
                       THEN fret'[Shrinker] = "EBUSY" /\ fpc'[Shrinker] = "idle"
                       ELSE fpc'[Shrinker] = "s_slot" /\ wg_mutex'[o] = Shrinker
                    /\ UNCHANGED <<wg_slot, pg_private, pg_count>>
              /\ (fpc[Shrinker] = "s_slot" /\ fpc'[Shrinker] # "s_slot") =>
                    IF wg_slot[o] /\ pg_lock # 0
                    THEN /\ fret'[Shrinker] = "EBUSY"
                         /\ fpc'[Shrinker] = "idle"
                         /\ wg_mutex'[o] = 0
                         /\ UNCHANGED <<wg_slot, pg_private, pg_count>>
                    ELSE /\ fpc'[Shrinker] = "s_unlock"
                         /\ ~wg_slot'[o]
                         /\ wg_slot[o] =>
                              pg_private = o /\ pg_private' = 0
                              /\ pg_count' = pg_count - 1
              /\ (fpc[Shrinker] = "s_unlock" /\ fpc'[Shrinker] # "s_unlock") =>
                    /\ fret'[Shrinker] = "0"
                    /\ ~wg_slot[o]
                    /\ wg_mutex'[o] = 0]_fvars

\* the cached page was locked by the page cache or by a migration while the
\* shrinker held the work mutex: -EBUSY, and the mutex is free again
C23_Witness ==
    /\ fret[Shrinker] = "EBUSY"
    /\ fpc[Shrinker] = "idle"
    /\ pg_lock # 0
    /\ pg_private # 0
    /\ wg_slot[pg_private]
    /\ wg_mutex[pg_private] = 0
    /\ wg_ref[pg_private] = 1

\* C24: erofs_migrate_cached_page on a tagged page whose workgroup is frozen
\* releases the work mutex and fails with -EBUSY, and changes no compressed
\* slot, not the tag of the old page and not the new page (the page frame of
\* the cache page stays the old one); a migration that rewrites the slot and
\* erofs_try_to_free_all_cached_pages inside its loop are never at work on
\* one workgroup at the same time.
C24_MigrationBacksOff ==
    /\ [](~(/\ fpc[Migrator] = "m_move"
            /\ fpc[Shrinker] \in {"s_slot", "s_unlock"}
            /\ fptr[Migrator] = fptr[Shrinker]))
    /\ [](fpc[Migrator] \in {"m_lock", "m_check", "m_move"} => wg_live[fptr[Migrator]])
    /\ [][(/\ fpc[Migrator] = "m_check"
           /\ fpc'[Migrator] # "m_check"
           /\ wg_ref[fptr[Migrator]] = EROFS_LOCKED_MAGIC)
          => (/\ fret'[Migrator] = "EBUSY"
              /\ fpc'[Migrator] = "idle"
              /\ wg_mutex'[fptr[Migrator]] = 0
              /\ UNCHANGED <<wg_slot, pg_private, pg_count, pg_frame, wg_ref>>)]_fvars

\* the migration found the workgroup frozen by the shrinker, which has not
\* tried the work mutex yet
C24_Witness ==
    /\ fret[Migrator] = "EBUSY"
    /\ fpc[Migrator] = "idle"
    /\ fpc[Shrinker] = "s_pages"
    /\ pg_private = fptr[Shrinker]
    /\ wg_ref[pg_private] = EROFS_LOCKED_MAGIC

\* ---- the extent index resolver (MapSpec) ---------------------------------
\* the cluster the call asks about
ReqLcn == (req_la + req_llen) \div ClusterSize
\* the cluster numbers vle_get_logical_extent_head has read the record of
HeadReads == IF mb_reads = <<>> THEN <<>> ELSE Tail(mb_reads)

\* C18: head resolution terminates whatever the index holds.  A level of
\* vle_get_logical_extent_head calls the next one only on a NONHEAD record
\* whose delta0 satisfies 0 < delta0 <= lcn, and the next level reads cluster
\* lcn - delta0; so the clusters read strictly decrease, stay at or above 0,
\* at most lcn + 1 records are read (lcn being the cluster of the first
\* level), a level can always take its step, and the resolution ends with a
\* HEAD or PLAIN record returned or with an error.
C18_HeadTerminates ==
    /\ [](/\ \A i \in 1..Len(HeadReads) :
                /\ HeadReads[i] \in Lcns
                /\ i > 1 => HeadReads[i] < HeadReads[i - 1]
          /\ HeadReads # <<>> => Len(HeadReads) <= HeadReads[1] + 1
          /\ mb_pc = "head" =>
                /\ ENABLED vle_get_logical_extent_head
                /\ mb_lcn \in Lcns
                /\ HeadReads # <<>> => mb_lcn < HeadReads[Len(HeadReads)]
          /\ mb_pc = "done" /\ HeadReads # <<>> =>
                \/ mb_err = "EIO"
                \/ /\ mb_err = "ok"
                   /\ di_index[HeadReads[Len(HeadReads)]].type \in {"HEAD", "PLAIN"})
    /\ [][(mb_pc = "head" /\ mb_pc' = "head") =>
            (LET di == di_index[mb_lcn]
                 delta0 == di.u
             IN  /\ di.type = "NONHEAD"
                 /\ 0 < delta0 /\ delta0 <= mb_lcn
                 /\ mb_lcn' = mb_lcn - delta0)]_mvars

\* the bound is met: from the last cluster the head is found at cluster 0
\* after a record of every cluster was read
C18_Witness ==
    /\ mb_pc = "done"
    /\ mb_err = "ok"
    /\ HeadReads = <<2, 1, 0>>

\* the index is valid: every record is PLAIN, HEAD or NONHEAD, a PLAIN or HEAD
\* record starts inside its cluster, the first cluster starts an extent at
\* its first position, and a NONHEAD delta is neither 0 nor beyond cluster 0
ValidIndex ==
    /\ di_index[0].type \in {"PLAIN", "HEAD"}
    /\ di_index[0].clusterofs = 0
    /\ \A l \in Lcns :
        /\ di_index[l].type \in {"PLAIN", "HEAD", "NONHEAD"}
        /\ di_index[l].type \in {"PLAIN", "HEAD"} => di_index[l].clusterofs < ClusterSize
        /\ di_index[l].type = "NONHEAD" => 0 < di_index[l].u /\ di_index[l].u <= l

\* the walk by hand: follow the NONHEAD deltas backward to a HEAD or PLAIN record
RECURSIVE WalkBack(_)
WalkBack(l) ==
    IF di_index[l].type = "NONHEAD" THEN WalkBack(l - di_index[l].u) ELSE l

\* the cluster the walk starts at: the one before the cluster of X when the
\* record of that cluster starts an extent behind X
WalkFrom(x) ==
    LET c == x \div ClusterSize
    IN  IF di_index[c].type # "NONHEAD" /\ x % ClusterSize < di_index[c].clusterofs
        THEN c - 1
        ELSE c

\* C19: an initial call (m_llen == 0) at X < i_size over a valid index returns
\* 0 with the mapping marked MAPPED, m_la <= X < m_la + m_llen, m_la the
\* logical start (cluster * clustersize + clusterofs) of the HEAD or PLAIN
\* record found by walking the NONHEAD deltas backward from the cluster of X,
\* or from the one before when X lies before that record's clusterofs, m_pa
\* the address of that record's block and m_plen the cluster size.
C19_MapsToHead ==
    (ValidIndex /\ req_llen = 0 /\ req_la < ISize /\ mb_pc = "done") =>
        LET h == WalkBack(WalkFrom(req_la))
        IN  /\ mb_err = "ok"
            /\ "MAPPED" \in map_flags
            /\ map_la <= req_la /\ req_la < map_la + map_llen
            /\ map_la = h * ClusterSize + di_index[h].clusterofs
            /\ map_pa = blknr_to_addr(di_index[h].u)
            /\ map_plen = ClusterSize

\* X lies before the start of the extent of the last cluster; the walk goes
\* from the cluster before over a NONHEAD record to a head inside cluster 0
C19_Witness ==
    /\ ValidIndex /\ req_llen = 0 /\ mb_pc = "done"
    /\ mb_reads = <<2, 1, 0>>
    /\ di_index[1].type = "NONHEAD"
    /\ di_index[2].clusterofs > req_la % ClusterSize
    /\ map_la < req_la

\* C21: a call with m_la >= i_size returns 0 with the mapping unmapped
\* (m_flags == 0, whatever the flags were at entry), m_llen equal to the
\* requested m_la + 1 - i_size and m_la equal to i_size; no record of the
\* index, hence no metadata block, is read and m_pa and m_plen are not written.
C21_BeyondEOF ==
    (req_la >= ISize /\ mb_pc = "done") =>
        /\ mb_err = "ok"
        /\ map_flags = {}
        /\ map_llen = req_la + 1 - ISize
        /\ map_la = ISize
        /\ mb_reads = <<>>
        /\ map_pa = 0 /\ map_plen = 0

\* a call past the end of the file on a map that an earlier call had mapped
C21_Witness ==
    /\ mb_pc = "done"
    /\ req_la = ISize + 1
    /\ req_flags = {"MAPPED", "ZIPPED"}
    /\ map_llen = 2

\* C20: the resolution returns -EIO, and fills in no mapping (no field of the
\* map is written and the MAPPED flag is as it was at entry), whenever
\* vle_get_logical_extent_head reads a NONHEAD record whose delta is 0 or
\* greater than the record's own cluster number (every NONHEAD record of
\* cluster 0 is one), and whenever the initial call asks about a position of
\* cluster 0 that lies before the clusterofs of its HEAD or PLAIN record; no
\* record of a cluster before cluster 0 is read: the clusters read are
\* between 0 and the cluster asked about.
C20_CorruptIndexIsEIO ==
    /\ \A i \in 1..Len(mb_reads) : 0 <= mb_reads[i] /\ mb_reads[i] <= ReqLcn
    /\ mb_pc = "head" => 0 <= mb_lcn /\ mb_lcn <= ReqLcn
    /\ mb_pc = "done" =>
        /\ (\E i \in 1..Len(HeadReads) :
              LET l == HeadReads[i]
              IN  /\ l \in Lcns
                  /\ di_index[l].type = "NONHEAD"
                  /\ (di_index[l].u = 0 \/ di_index[l].u > l))
           => /\ mb_err = "EIO"
              /\ <<map_la, map_llen, map_pa, map_plen>> = <<req_la, 0, 0, 0>>
              /\ ("MAPPED" \in map_flags) = ("MAPPED" \in req_flags)
        /\ (/\ req_llen = 0 /\ req_la < ClusterSize
            /\ di_index[0].type \in {"PLAIN", "HEAD"}
            /\ di_index[0].clusterofs > req_la)
           => /\ mb_err = "EIO"
              /\ mb_reads = <<0>>
              /\ <<map_la, map_llen, map_pa, map_plen>> = <<req_la, 0, 0, 0>>
              /\ ("MAPPED" \in map_flags) = ("MAPPED" \in req_flags)

\* a walk that got from cluster 2 to cluster 1 finds a delta of 2 there
C20_Witness ==
    /\ mb_pc = "done"
    /\ mb_err = "EIO"
    /\ HeadReads = <<2, 1>>
    /\ di_index[1].type = "NONHEAD"
    /\ di_index[1].u = 2

\* the last record the call has read: the record whose extent the mapping is
LastRead == di_index[mb_reads[Len(mb_reads)]]

\* C32: an initial call that returns a mapping leaves the compressed flag
\* cleared exactly when the record that owns the requested position is PLAIN,
\* whatever flags the map held at entry: a PLAIN record of the requested
\* cluster owns the position from its clusterofs on, and the mapping is
\* uncompressed; before the clusterofs of a PLAIN or HEAD record the owner is
\* the head found by the walk from the cluster before, and the flag is
\* cleared only if that head is PLAIN.
C32_PlainIsUncompressed ==
    (req_llen = 0 /\ req_la < ISize /\ mb_pc = "done" /\ mb_err = "ok") =>
        LET di == di_index[ReqLcn]
            ofs_rem == req_la % ClusterSize
        IN  /\ "MAPPED" \in map_flags
            /\ ("ZIPPED" \notin map_flags) = (LastRead.type = "PLAIN")
            /\ (di.type = "PLAIN" /\ ofs_rem >= di.clusterofs)
               => mb_reads = <<ReqLcn>> /\ "ZIPPED" \notin map_flags
            /\ (di.type \in {"PLAIN", "HEAD"} /\ ofs_rem < di.clusterofs)
               => /\ Len(mb_reads) >= 2
                  /\ mb_reads[2] = ReqLcn - 1
                  /\ LastRead.type \in {"PLAIN", "HEAD"}
                  /\ map_la = head_ofs(mb_reads[Len(mb_reads)], LastRead.clusterofs)

\* a position before the clusterofs of a PLAIN record, in the extent of a
\* HEAD record: the mapping is compressed, on a map that came in as an
\* uncompressed mapping
C32_Witness ==
    /\ req_llen = 0 /\ req_la < ISize /\ mb_pc = "done" /\ mb_err = "ok"
    /\ di_index[ReqLcn].type = "PLAIN"
    /\ req_la % ClusterSize < di_index[ReqLcn].clusterofs
    /\ LastRead.type = "HEAD"
    /\ req_flags = {"MAPPED"}
    /\ map_flags = {"MAPPED", "ZIPPED"}

\* a position before the clusterofs of a HEAD record, in the extent of a
\* PLAIN record two clusters back: the mapping is uncompressed, on a map
\* that came in as a compressed mapping
C32_WitnessCleared ==
    /\ req_llen = 0 /\ req_la < ISize /\ mb_pc = "done" /\ mb_err = "ok"
    /\ di_index[ReqLcn].type = "HEAD"
    /\ req_la % ClusterSize < di_index[ReqLcn].clusterofs
    /\ mb_reads = <<2, 1, 0>>
    /\ LastRead.type = "PLAIN"
    /\ req_flags = {"MAPPED", "ZIPPED"}
    /\ map_flags = {"MAPPED"}

\* C33: a call in walking mode (m_llen != 0, m_la < i_size) changes m_llen
\* only: it grows by the cluster size when the record of the cluster of
\* m_la + m_llen is NONHEAD and by the clusterofs of that record when it is
\* HEAD or PLAIN (a record of no known type gives -EIO and no change); m_la,
\* m_pa, m_plen and m_flags are as at entry and only that one record is read.
C33_WalkingMode ==
    (req_llen # 0 /\ req_la < ISize /\ mb_pc = "done") =>
        /\ map_la = req_la
        /\ map_pa = left_pa(req_la, req_llen)
        /\ map_plen = left_plen(req_la, req_llen)
        /\ map_flags = req_flags
        /\ mb_reads = <<ReqLcn>>
        /\ mb_err = "EIO" => map_llen = req_llen
        /\ mb_err = "ok" => map_llen - req_llen \in 0..ClusterSize
        /\ ReqLcn \in Lcns =>
              LET di == di_index[ReqLcn]
              IN  /\ (mb_err = "EIO") = (di.type = "RESERVED")
                  /\ di.type = "NONHEAD" => map_llen = req_llen + ClusterSize
                  /\ di.type \in {"HEAD", "PLAIN"}
                     => map_llen = req_llen + di.clusterofs

\* the walk has met a PLAIN record that starts inside its cluster, on a map
\* that holds a compressed mapping
C33_Witness ==
    /\ req_llen # 0 /\ req_la < ISize /\ mb_pc = "done" /\ mb_err = "ok"
    /\ ReqLcn \in Lcns
    /\ di_index[ReqLcn].type = "PLAIN"
    /\ di_index[ReqLcn].clusterofs = 1
    /\ map_llen = req_llen + 1
    /\ map_flags = {"MAPPED", "ZIPPED"}
    /\ map_pa # 0

\* the walk has met a NONHEAD record
C33_WitnessNonhead ==
    /\ req_llen # 0 /\ req_la < ISize /\ mb_pc = "done" /\ mb_err = "ok"
    /\ ReqLcn \in Lcns
    /\ di_index[ReqLcn].type = "NONHEAD"
    /\ map_llen = req_llen + ClusterSize

\* ---- the metadata pages of the resolver (MetaSpec) ------------------------
\* the page of block b is locked by the call
MetaLocked(b) == mp_locks[b] - mp_unlocks[b]

\* C34: z_erofs_map_blocks_iter leaves no metadata page locked, on any return
\* path: every page it has locked, by lock_page or inside
\* erofs_get_meta_page, at its entry or when the backward walk of
\* vle_get_logical_extent_head took another page, is unlocked exactly once
\* before the return; no page is locked twice or unlocked without being
\* locked, and during the walk the one locked page is the page of *mpage_ret.
C34_NoPageLeftLocked ==
    /\ \A b \in MetaBlocks : MetaLocked(b) \in {0, 1} /\ mp_locks[b] <= 1
    /\ mb_pc = "head" =>
          /\ mp_ret # 0
          /\ \A b \in MetaBlocks : MetaLocked(b) = IF b = mp_ret THEN 1 ELSE 0
    /\ mb_pc = "done" => \A b \in MetaBlocks : mp_unlocks[b] = mp_locks[b]

\* a successful call whose walk went from the page of block 2 to block 1
C34_Witness ==
    /\ mb_pc = "done" /\ mb_err = "ok"
    /\ mp_ret = 1
    /\ mp_locks = [b \in MetaBlocks |-> 1]
    /\ mp_unlocks = [b \in MetaBlocks |-> 1]

\* -EIO from decoding a record on the page the walk has moved to
C34_WitnessEIO ==
    /\ mb_pc = "done" /\ mb_err = "EIO"
    /\ mp_faults = MaxFaults
    /\ mp_ret = 1
    /\ mp_locks = [b \in MetaBlocks |-> 1]
    /\ mp_unlocks = [b \in MetaBlocks |-> 1]

\* the read of the metadata block failed during the backward walk
C34_WitnessNoPage ==
    /\ mb_pc = "done" /\ mb_err \in FetchErrors
    /\ Len(mb_reads) >= 1
    /\ mp_ret = 0
    /\ mp_locks[2] = 1 /\ mp_unlocks[2] = 1
    /\ mp_locks[1] = 0

\* C35: after the return of z_erofs_map_blocks_iter, with or without an
\* error, *mpage_ret is NULL or a page on which the caller holds exactly one
\* reference, so that the put_page of m_iter.mpage at the end of the read
\* operation releases a reference the caller has.
C35_PageRefHeld ==
    mb_pc = "done" => (mp_ret = 0 \/ mp_ref[mp_ret] = 1)

\* the references apart from the stale *mpage_ret: no page but that of
\* *mpage_ret is referenced, and that one at most once
C35_RefsElsewhere ==
    /\ \A b \in MetaBlocks : mp_ref[b] \in {0, 1}
    /\ \A b \in MetaBlocks : mp_ref[b] = 1 => b = mp_ret

\* ---- the compressed slot, the bios and the two lists (Spec) ---------------

BioBlocks(b) == {gkey[g] : g \in b}

\* the block addresses of a bio are consecutive: as many as its pages, with
\* no gap between the lowest and the highest
Consecutive(b) ==
    /\ Cardinality(BioBlocks(b)) = Cardinality(b)
    /\ \A i, j \in BioBlocks(b) : \A k \in i..j : k \in BioBlocks(b)

\* C26: the running bio and every submitted bio hold pages of consecutive
\* block addresses; a page joins the running bio only if its block follows
\* the last one added, no cache-resident page was skipped in between and
\* bio_add_page takes it, otherwise the running bio is submitted and a new
\* bio, counted in nr_bios, starts with the page; nr_bios is the number of
\* bios created: the running bio is bio number nr_bios and the submitted
\* ones carry the numbers below it
C26_BioConsecutive ==
    /\ [](\A r \in Readers :
            /\ Consecutive(bio[r])
            /\ \A b \in inflight[r] :
                 Consecutive(b[2]) /\ b[2] # {} /\ b[1] \in 1..nr_bios[r]
            /\ bio_open[r] = (bio[r] # {})
            /\ bio_open[r] =>
                 /\ nr_bios[r] >= 1
                 /\ \A b \in inflight[r] : b[1] < nr_bios[r]
                 /\ \E g \in bio[r] : gkey[g] = last_index[r]
                 /\ \A g \in bio[r] : gkey[g] <= last_index[r])
    /\ [][\A r \in Readers :
            (/\ pc[r] = "walk"
             /\ <<pc[r], s_owned[r], todo[r], lstgrp[r]>>'
                    # <<pc[r], s_owned[r], todo[r], lstgrp[r]>>) =>
               LET g == s_owned[r] IN
               IF grab_page_noio(slot[g])
               THEN /\ UNCHANGED <<bio[r], nr_bios[r]>>
                    /\ force_submit'[r]
                    /\ inflight[r] \subseteq inflight'[r]
               ELSE \/ /\ bio_open[r] /\ ~force_submit[r]
                       /\ gkey[g] = last_index[r] + 1
                       /\ bio'[r] = bio[r] \cup {g}
                       /\ nr_bios'[r] = nr_bios[r]
                       /\ inflight[r] \subseteq inflight'[r]
                    \/ /\ bio'[r] = {g}
                       /\ nr_bios'[r] = nr_bios[r] + 1
                       /\ bio_open[r] => <<nr_bios[r], bio[r]>> \in inflight'[r]]_vars
    /\ [][\A r \in Readers :
            (pc[r] = "walk_end" /\ pc'[r] # "walk_end") =>
               /\ nr_bios'[r] = nr_bios[r]
               /\ bio_open[r] => <<nr_bios[r], bio[r]>> \in inflight'[r]
               /\ ~bio_open'[r]]_vars

\* a bio of two pages of consecutive blocks has been submitted, as the only
\* bio of its walk
C26_Witness ==
    \E r \in Readers : \E b \in inflight[r] :
        Cardinality(b[2]) = 2 /\ nr_bios[r] = 1 /\ pc[r] = "kickoff"

\* a page that followed the last block was refused by bio_add_page and
\* started the second bio of the walk
C26_WitnessRefused ==
    \E r \in Readers : \E g \in Groups :
        /\ bio[r] = {g} /\ nr_bios[r] = 2 /\ ~force_submit[r]
        /\ \E b \in inflight[r] : b[1] = 1 /\ \E h \in b[2] : gkey[h] + 1 = gkey[g]

\* the workgroups of the list that starts at h, followed through the links
\* nx for at most n links
RECURSIVE IoListIn(_, _, _)
IoListIn(nx, h, n) ==
    IF h \notin Groups \/ n = 0 THEN {} ELSE {h} \cup IoListIn(nx, nx[h], n - 1)

IoList(h, n) == IoListIn(next, h, n)

\* what follows the last workgroup of the list that starts at h
RECURSIVE IoListEnd(_, _)
IoListEnd(h, n) ==
    IF h \notin Groups \/ n = 0 THEN h ELSE IoListEnd(next[h], n - 1)

\* C27: a round of the walk puts its workgroup at the end of the no-I/O list
\* exactly when grab_page_for_submission returned no page to read (the slot
\* holds a managed cache page that is up to date) and adds no page to a bio
\* then; otherwise the workgroup is the last of the I/O list and its page is
\* in the running bio.  When the walk has ended, the two lists are disjoint,
\* together they hold the workgroups the walk went through, and each ends at
\* TAIL_CLOSED; the submitter starts on the no-I/O list whatever the number
\* of its pending bios is
C27_TwoLists ==
    /\ [](\A r \in Readers : pc[r] = "kickoff" =>
            LET noio == IoList(io_head[r][1], NKeys + 1)
                io == IoList(io_head[r][2], NKeys + 1)
            IN  /\ noio \cap io = {}
                /\ noio \cup io = todo[r]
                /\ IoListEnd(io_head[r][1], NKeys + 1) = TAIL_CLOSED
                /\ IoListEnd(io_head[r][2], NKeys + 1) = TAIL_CLOSED
                /\ \A g \in noio : slot[g].kind = "CACHED")
    /\ [](\A r \in Readers :
            (pc[r] = "ua" /\ u_list[r] = 1) => ENABLED UnzipAllNext(r))
    /\ [][\A r \in Readers :
            (/\ pc[r] = "walk"
             /\ <<pc[r], s_owned[r], todo[r], lstgrp[r]>>'
                    # <<pc[r], s_owned[r], todo[r], lstgrp[r]>>) =>
               LET g == s_owned[r] IN
               IF slot[g].kind = "CACHED" /\ slot[g].uptodate
               THEN /\ lstgrp'[r] = <<g, lstgrp[r][2]>>
                    /\ g \in IoListIn(next', io_head'[r][1], NKeys + 1)
                    /\ g \notin bio'[r] /\ nr_bios'[r] = nr_bios[r]
               ELSE /\ lstgrp'[r] = <<lstgrp[r][1], g>>
                    /\ g \in bio'[r]
                    /\ io_head'[r] = io_head[r]]_vars

\* a walk has ended with one workgroup on each list, and its bio is still
\* under way
C27_Witness ==
    \E r \in Readers :
        /\ pc[r] = "kickoff" /\ inflight[r] # {}
        /\ io_head[r][1] \in Groups /\ io_head[r][2] \in Groups

\* the submitter decompresses the no-I/O list while its bio is under way
C27_WitnessNoWait ==
    \E r \in Readers :
        /\ pc[r] = "uz_lock" /\ u_list[r] = 1
        /\ pending_bios[r] > 0 /\ inflight[r] # {}

\* ---- the trigger of the decompression (KickSpec) ---------------------------

\* the statement of C28 as written: in background mode no context but the
\* worker runs z_erofs_vle_unzip_wq
C28_NeverInline ==
    k_bg => \A i \in 1..Len(k_unzip) : k_unzip[i] = "worker"

\* C28: in background mode the call of z_erofs_vle_unzip_kickoff that brings
\* pending_bios to zero, and no other call, starts the decompression, once.
\* A context that is atomic or has interrupts disabled never runs it: it
\* queues the work for the worker pool, as every context does in a kernel
\* without CONFIG_PREEMPT_COUNT.  With CONFIG_PREEMPT_COUNT a context that may
\* sleep (the submitter's final add, a completion in task context) runs
\* z_erofs_vle_unzip_wq itself and queues nothing.  A foreground io only
\* wakes its waiter.
C28_AtomicNeverUnzips ==
    /\ [](/\ \A i \in 1..Len(k_unzip) : k_unzip[i] # "irq"
          /\ ~k_preempt => \A i \in 1..Len(k_unzip) : k_unzip[i] = "worker"
          /\ ~k_bg => k_unzip = <<>> /\ k_work = "none"
          /\ k_bg => ~k_woken
          /\ Len(k_unzip) <= 1
          /\ (k_unzip # <<>> /\ k_unzip[1] # "worker") => k_work = "none"
          /\ (k_work # "none" \/ k_unzip # <<>>) =>
                k_pending = 0 /\ SubmitterCalled /\ EndIOCalls = k_nr)
    /\ [][LET n == Len(k_calls) + 1 IN
          (k_bg /\ Len(k_calls') = n) =>
             /\ k_pending' = k_pending + k_calls'[n][2]
             /\ IF k_pending' # 0
                THEN UNCHANGED <<k_work, k_unzip>>
                ELSE IF k_preempt /\ k_calls'[n][1] # "irq"
                THEN k_unzip' = <<k_calls'[n][1]>> /\ k_work' = "none"
                ELSE k_work' = "queued" /\ k_unzip' = <<>>]_kvars

\* with CONFIG_PREEMPT_COUNT the submitter's final add found every bio
\* completed and ran the decompression itself
C28_Witness ==
    /\ k_bg /\ k_preempt /\ k_nr = 2
    /\ k_unzip = <<"submitter">>
    /\ k_calls[1][1] = "irq"

\* a completion in interrupt context brought the counter to zero and queued
\* the work
C28_WitnessQueued ==
    /\ k_bg /\ k_preempt /\ k_work = "queued"
    /\ k_calls[Len(k_calls)] = <<"irq", 0 - 1>>

\* ---- the pages of a compressed slot (SlotSpec) -----------------------------

\* pages of the pools and of alloc_pages that a thread holds, that the slot
\* holds, or that went from the slot into the managed cache
PagesOut ==
    Cardinality({t \in {Builder, Submitter} : c_held[t] \in {"new", "staging"}})
        + (IF c_slot.kind \in {"PREALLOC", "STAGING"} THEN 1 ELSE 0)
        + (IF c_old.kind = "PREALLOC" /\ c_pc[Submitter] = "s_put" THEN 1 ELSE 0)
        + (IF c_old.kind = "PREALLOC" /\ c_pc[Submitter] = "s_done" /\ c_cache
           THEN 1 ELSE 0)

PagesInPools == c_pool[Builder] + c_pool[Submitter] + c_pool[Unzipper]

\* C29: z_erofs_vle_unzip leaves a slot that held a staging page or an
\* in-place file page NULL, and the staging page is on the page pool of the
\* caller; a slot that held a managed cache page holds it as before, and the
\* page is in the cache, tagged, with the references it had
C29_UnzipSlots ==
    /\ [](c_pc[Unzipper] = "u_done" =>
            /\ c_before.kind \in {"STAGING", "FILE", "CACHED"}
            /\ c_before.kind \in {"STAGING", "FILE"} => c_slot = NullSlot
            /\ c_before.kind = "STAGING" =>
                  c_pool[Unzipper] = 1 /\ PagesInPools = c_pages
            /\ c_before.kind = "FILE" => c_pool[Unzipper] = 0
            /\ c_before.kind = "CACHED" =>
                  /\ c_slot = c_before /\ c_pool[Unzipper] = 0
                  /\ c_cache /\ c_tag /\ c_ref = 2)
    /\ [][c_pc'[Unzipper] # c_pc[Unzipper] =>
            UNCHANGED <<c_cache, c_uptodate, c_tag, c_ref, c_pages>>]_cvars

\* the pass has put the staging page of the slot on its pool
C29_Witness ==
    /\ c_pc[Unzipper] = "u_done"
    /\ c_before = StagingSlot /\ c_slot = NullSlot /\ c_pool[Unzipper] = 1

\* the pass has left a managed cache page, found by the scan, in its slot
C29_WitnessCached ==
    /\ c_pc[Unzipper] = "u_done"
    /\ c_before.kind = "CACHED" /\ c_slot = c_before /\ c_old.kind = "FOUND"

\* the pass has cleared a slot that held an in-place file page
C29_WitnessFile ==
    c_pc[Unzipper] = "u_done" /\ c_before.kind = "FILE" /\ c_slot = NullSlot

\* C30: no page is lost: every page the pools held or alloc_pages gave is on
\* a pool, in the slot, in the managed cache or in the hands of a thread,
\* and the managed cache page has one reference for the cache, one for the
\* slot that holds it and one for the thread that found it.  A scan whose
\* cmpxchg fails puts the page it took back on its pool, or drops the
\* reference of the page it found, and leaves the slot; a
\* grab_page_for_submission whose cmpxchg fails puts its staging page back
\* on its pool and starts again at the xchg
C30_LoserGivesBack ==
    /\ [](/\ PagesInPools + PagesOut = c_pages
          /\ c_ref = (IF c_cache THEN 1 ELSE 0)
                   + (IF c_slot.kind \in {"FOUND", "CACHED"} THEN 1 ELSE 0)
                   + (IF c_old.kind = "FOUND" /\ c_pc[Submitter] = "s_put" THEN 1 ELSE 0)
                   + (IF c_held[Builder] = "found" THEN 1 ELSE 0)
          /\ \A t \in {Builder, Submitter} :
                c_held[t] # "none" <=> c_pc[t] \in {"b_cas", "s_cas"})
    /\ [][(c_pc[Builder] = "b_cas" /\ c_pc'[Builder] # "b_cas" /\ c_slot # NullSlot) =>
            /\ c_slot' = c_slot
            /\ c_held'[Builder] = "none"
            /\ c_held[Builder] = "new" =>
                  c_pool'[Builder] = c_pool[Builder] + 1 /\ c_ref' = c_ref
            /\ c_held[Builder] = "found" =>
                  c_ref' = c_ref - 1 /\ c_pool' = c_pool]_cvars
    /\ [][(c_pc[Submitter] = "s_cas" /\ c_pc'[Submitter] # "s_cas"
                /\ c_slot # LockedSlot) =>
            /\ c_slot' = c_slot
            /\ c_held'[Submitter] = "none"
            /\ c_pool'[Submitter] = c_pool[Submitter] + 1
            /\ c_pc'[Submitter] = "s_xchg"]_cvars

\* the scan lost the slot to the submitter and its page is back on the pool
C30_Witness ==
    /\ c_lost[Builder] = "new" /\ c_pool[Builder] = 1
    /\ c_pc[Builder] = "b_add" /\ c_slot.kind \in {"LOCKED", "STAGING"}

\* the scan lost the slot with a page it had found in the managed cache
C30_WitnessFound ==
    /\ c_lost[Builder] = "found" /\ c_ref = 1 /\ c_slot.kind = "STAGING"

\* ---- C31 -----------------------------------------------------------------
\* the holders of a reference of page p: the managed cache, the slot that
\* holds the tagged page, and the submitter for the page its xchg took out
\* of the slot once the migration has cleared the tag
SwapHolders(p) ==
    (IF sw_mapping[p] = "mc" THEN 1 ELSE 0)
    + (IF sw_tag[p] THEN 1 ELSE 0)
    + (IF sw_pc[Submitter] = "s_lock" /\ sw_page = p /\ ~sw_tag[p] THEN 1 ELSE 0)

\* C31: a successful erofs_migrate_cached_page of a tagged page runs its
\* cmpxchg under the mutex of the work; when the slot holds the old page, the
\* slot holds the new page afterwards, the new page is tagged and has one
\* reference more, and the old page loses its tag and one reference; when the
\* slot is PAGE_MIGRATE_LOCKED, the slot is left as it is, the old page loses
\* its tag and keeps its reference; no other case exists, and every page has
\* as many references as holders.
C31_MigrateSwaps ==
    /\ [](/\ sw_pc[Mover] \in {"m_check", "m_cas", "m_copy"} => sw_mutex = Mover
          /\ sw_pc[Mover] = "m_cas" => sw_slot \in {OldPage, "LOCKED"}
          /\ \A p \in {OldPage, NewPage} : sw_ref[p] = SwapHolders(p))
    /\ [][sw_pc[Mover] = "m_cas" /\ sw_pc'[Mover] = "m_copy"
          => IF sw_slot = OldPage
             THEN /\ sw_slot' = NewPage
                  /\ sw_tag'[NewPage]
                  /\ sw_ref'[NewPage] = sw_ref[NewPage] + 1
                  /\ ~sw_locking'
             ELSE /\ sw_slot' = sw_slot
                  /\ sw_locking'
                  /\ UNCHANGED <<sw_ref, sw_tag>>]_swvars
    /\ [][sw_pc[Mover] = "m_copy" /\ sw_pc'[Mover] = "idle"
          => /\ sw_ret' = "SUCCESS"
             /\ ~sw_tag'[OldPage]
             /\ sw_tag'[NewPage] = sw_tag[NewPage]
             /\ sw_slot' = sw_slot
             /\ sw_ref'[NewPage] = sw_ref[NewPage]
             /\ sw_ref'[OldPage] = sw_ref[OldPage] - (IF sw_locking THEN 0 ELSE 1)]_swvars

\* the migration has replaced the tagged page in its slot
C31_Witness ==
    /\ sw_pc[Mover] = "idle" /\ sw_ret = "SUCCESS"
    /\ sw_slot = NewPage /\ sw_tag[NewPage] /\ sw_ref[NewPage] = 2
    /\ ~sw_tag[OldPage] /\ sw_ref[OldPage] = 0

\* the migration has met PAGE_MIGRATE_LOCKED: the submitter still holds the
\* old page and its reference
C31_WitnessLocked ==
    /\ sw_pc[Mover] = "idle" /\ sw_ret = "SUCCESS" /\ sw_locking
    /\ sw_slot = "LOCKED" /\ sw_page = OldPage
    /\ ~sw_tag[OldPage] /\ sw_ref[OldPage] = 1
    /\ ~sw_tag[NewPage] /\ sw_ref[NewPage] = 1

\* ---- C36 -----------------------------------------------------------------
\* where the walk along next from h is after at most n workgroups
RECURSIVE ChainEnd(_, _)
ChainEnd(h, n) ==
    IF h \notin Groups \/ n = 0 THEN h ELSE ChainEnd(next[h], n - 1)

\* the walk from h meets every workgroup at most once and ends at a tail mark
EndsAtTail(h) == ChainEnd(h, Cardinality(Groups)) \in {TAIL, TAIL_CLOSED}

\* workgroup g lies on a cycle of next pointers
OnCycle(g) == \E n \in 1..Cardinality(Groups) : ChainEnd(next[g], n - 1) = g

\* the chains that have an owner: the owned_head of every read operation, the
\* position of every walk of z_erofs_vle_submit_all and the list every pass
\* of z_erofs_vle_unzip_all still has to go through end at a tail mark
C36_OwnedChainsEnd ==
    /\ \A r \in Readers : EndsAtTail(owned_head[r])
    /\ \A r \in Readers : EndsAtTail(s_owned[r])
    /\ \A t \in Threads : EndsAtTail(u_owned[t])

\* C36: the chains rooted at the owned_head of a read operation and the lists
\* handed to decompression meet every workgroup at most once and end at TAIL
\* or TAIL_CLOSED, and the cmpxchg of grp->next from NIL and from TAIL never
\* closes a cycle of next pointers, also when a read operation comes back to
\* the workgroup at the tail of its own open chain or when two read
\* operations hook their chains behind each other.
C36_NoCycle ==
    /\ C36_OwnedChainsEnd
    /\ \A g \in Groups : ~OnCycle(g)

\* ---- C37 -----------------------------------------------------------------
\* builder r holds the reference its lookup took on workgroup g: from
\* erofs_find_workgroup until z_erofs_vle_work_iter_end, unless the claim
\* made it the reference of the host
LookupRef(r, g) ==
    /\ b_grp[r] = g
    /\ \/ pc[r] \in {"lock", "claim", "cas_nil", "cas_tail"}
       \/ pc[r] \in {"scan", "add", "iter_end"} /\ ~hosted[r]

\* the references on workgroup g that are held for a reason: the registry's,
\* those of the builders at work, that of the host while the workgroup is on
\* a chain and that of a pass between WRITE_ONCE(next, NIL) and its put
RefsHeld(g) ==
    1 + Cardinality({r \in Readers : LookupRef(r, g)})
      + (IF next[g] # NIL THEN 1 ELSE 0)
      + Cardinality({t \in Threads : u_grp[t] = g /\ pc[t] \in {"uz_unlock", "uz_put"}})

\* every reference taken is held by exactly one user until that user puts it
C37_RefsAccounted == \A g \in registered : refcount[g] = RefsHeld(g)

\* C37: workgroup references are conserved: the reference a builder takes by
\* creating or finding a workgroup is put exactly once, by
\* z_erofs_vle_work_iter_end when hosted is false and at the end of
\* z_erofs_vle_unzip when hosted is true; the count never is below the
\* registry's reference plus the users at work, and when every read
\* operation and every pass has finished it is the registry's reference alone.
C37_RefsConserved ==
    /\ C37_RefsAccounted
    /\ Quiescent => \A g \in registered : refcount[g] = 1


\* apart from the chains that nobody submits (the chain of a ->readpage call
\* that left on an error, and the workgroups that lead into a cycle of next),
\* every workgroup is back at the registry's reference when all is finished
C37_IdleUnlessLost ==
    Quiescent
    => \A g \in registered :
          \/ refcount[g] = 1
          \/ ChainEnd(g, Cardinality(Groups)) \in Groups
          \/ \E r \in Readers : readpage[r] /\ err[r]

\* the values the sentinels allow, and the BUG_ON / DBG_BUGON tests of the
\* submission walk, of z_erofs_vle_unzip_all, z_erofs_vle_unzip_wq and
\* z_erofs_vle_unzip never fire
TypeOK ==
    /\ \A g \in Groups : next[g] \in Groups \cup {NIL, TAIL, TAIL_CLOSED}
    /\ \A g \in Groups : refcount[g] >= 0
    /\ \A r \in Readers : online[r] >= 0
    /\ \A r \in Readers : nr_bios[r] <= NKeys
    /\ \A r \in Readers : pc[r] = "walk" => s_owned[r] \in Groups
    /\ \A t \in Threads : pc[t] = "ua" => u_owned[t] \in Groups \cup {TAIL_CLOSED}
    /\ \A t \in Threads : pc[t] = "uz_lock" => nr_pages[u_grp[t]] # 0
    /\ \A t \in Threads : pc[t] = "uz_lock" => u_owned[t] = next[u_grp[t]]
    /\ \A w \in Workers : pc[w] = "ua" => u_owned[w] # TAIL_CLOSED

====
